------------------------------ MODULE CJsonReaders ------------------------------
(***************************************************************************)
(* The three parts of xface/cJSON.c that work on a text they are given:    *)
(* CJsonParse, CJsonString and CJsonMinify.  A behaviour is of one of them, *)
(* and part says of which; the variables of the others do not change.      *)
(***************************************************************************)
EXTENDS Integers, Sequences

CONSTANTS
  ParseTexts, StringTexts, MinifyTexts, \* the Texts of the parts
  NestingLimit, NumberLimit, NoError    \* of CJsonParse

VARIABLES
  part,                                                    \* which one
  text, step, supply,                                      \* text, pc, memory of the three
  strict, position, frames, made, error,                   \* CJsonParse: position is offset, made is blocks
  input_pointer, input_end, skipped_bytes, output, room,   \* CJsonString, with position
  original, json, into                                     \* CJsonMinify: original is given

shared == <<part, text, step, supply, position>>
parseVars == <<strict, frames, made, error>>
stringVars == <<input_pointer, input_end, skipped_bytes, output, room>>
minifyVars == <<original, json, into>>
readVars == <<shared, parseVars, stringVars, minifyVars>>

Parse == INSTANCE CJsonParse WITH
  Texts <- ParseTexts, memory <- supply, pc <- step, offset <- position, blocks <- made
Unquote == INSTANCE CJsonString WITH
  Texts <- StringTexts, memory <- supply, pc <- step, offset <- position
Minify == INSTANCE CJsonMinify WITH
  Texts <- MinifyTexts, pc <- step, given <- original

ASSUME CJsonReadersAssumption ==
  Parse!CJsonParseAssumption /\ Unquote!CJsonStringAssumption /\ Minify!CJsonMinifyAssumption

NoText == text = <<>> /\ step = "none" /\ supply = "enough" /\ position = 0
NoParse == strict = "no" /\ frames = <<>> /\ made = 0 /\ error = NoError
NoString == input_pointer = 0 /\ input_end = 0 /\ skipped_bytes = 0 /\ output = <<>> /\ room = 0
NoMinify == original = <<>> /\ json = 0 /\ into = 0

ReadInit ==
  \/ part = "parse" /\ Parse!Init /\ NoString /\ NoMinify
  \/ part = "string" /\ Unquote!Init /\ NoParse /\ NoMinify
  \/ part = "minify" /\ Minify!Init /\ supply = "enough" /\ position = 0 /\ NoParse /\ NoString

ReadNext ==
  \/ part = "parse" /\ Parse!Next /\ UNCHANGED <<part, stringVars, minifyVars>>
  \/ part = "string" /\ Unquote!Next /\ UNCHANGED <<part, parseVars, minifyVars>>
  \/ part = "minify" /\ Minify!Next /\ UNCHANGED <<part, supply, position, parseVars, stringVars>>

ReadSpec == ReadInit /\ [][ReadNext]_readVars
-----------------------------------------------------------------------------
\* Every block belongs to a list of a call of parse_array or parse_object that is not
\* over: after a failure at any place, memory included, none is left, and none is freed
\* twice.
BlocksHaveOwners == part = "parse" => Parse!BlocksHaveOwners

\* No part reads behind the end of its text, nor writes where it must not: the parser
\* asks before it looks, an escape takes at most the quote that ends the literal with it,
\* whatever its digits, and what it is decoded to fits into the block measured before,
\* and a comment or string that does not end leads minify nowhere behind the NUL.
StaysInBounds ==
  /\ part = "parse" => Parse!LooksInsideText
  /\ part = "string" => Unquote!StaysInLiteral /\ Unquote!OutputFits
  /\ part = "minify" => Minify!StaysInText
===============================================================================
