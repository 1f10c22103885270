------------------------------- MODULE Tokens -------------------------------
(***************************************************************************)
(* How a line becomes words: split_line of MiniFS and split_request of the *)
(* contact device.  Both count the words in one pass over the line, get an *)
(* array of that many tokens, and cut the words in a second pass that has  *)
(* a pointer and stops at terminators.  split_line copies each word;       *)
(* split_request points into the line and turns the blanks into            *)
(* terminators.  A line that a person types holds none itself, a request   *)
(* is any sequence of bytes.                                               *)
(***************************************************************************)
EXTENDS Naturals, Sequences, FiniteSets

CONSTANT MaxLength    \* MAX_INP for a request

ASSUME LengthAssumption == MaxLength \in Nat

Char == {"letter", "blank", "nul"}
Splitters == {"split_line", "split_request"}

VARIABLES
  asked,     \* the line
  by,        \* the function that splits it
  data,      \* the buffer: the line and a terminator
  counted,   \* *count, *result_length
  tokens,    \* those that are set: from where, and as a copy up to where
  at,        \* the pointer
  pc

buffer == <<asked, by, counted>>
vars   == <<asked, by, data, counted, tokens, at, pc>>

Lines(splitter) ==
  UNION {[1 .. n -> IF splitter = "split_line" THEN Char \ {"nul"} ELSE Char] :
           n \in 0 .. MaxLength}

Init ==
  /\ asked = <<>> /\ by = "split_line"
  /\ data = <<"nul">> /\ counted = 0
  /\ tokens = <<>> /\ at = 1
  /\ pc = "idle"

-----------------------------------------------------------------------------
(* Bug: every blank ends a word.                                           *)
CountedBlanks(line) ==
  Cardinality({i \in 2 .. Len(line) : line[i] = "blank"})
    + IF line # <<>> /\ line[Len(line)] # "blank" THEN 1 ELSE 0

(* The first pass: ends of words before the last character, and there.     *)
Counted(line) ==
  Cardinality({i \in 2 .. Len(line) : line[i] = "blank" /\ line[i - 1] # "blank"})
    + IF line # <<>> /\ line[Len(line)] # "blank" THEN 1 ELSE 0

(* split_request has a last loop for the blanks at the end of the line.    *)
Rest(splitter) == IF splitter = "split_line" THEN "done" ELSE "trailing"

Split ==
  /\ pc = "idle"
  /\ by' \in Splitters
  /\ asked' \in Lines(by')
  /\ data' = asked' \o <<"nul">>
  /\ counted' = Counted(asked')
  /\ tokens' = <<>> /\ at' = 1
  /\ pc' = IF asked' = <<>> THEN "done"
           ELSE IF counted' = 0 THEN Rest(by') ELSE "blanks"

(* Bug: blanks stay in the request.                                        *)
SkipBlankKeeps ==
  /\ pc \in {"blanks", "trailing"} /\ data[at] = "blank"
  /\ at' = at + 1
  /\ UNCHANGED <<buffer, data, tokens, pc>>

SkipBlank ==
  /\ pc \in {"blanks", "trailing"} /\ data[at] = "blank"
  /\ data' = IF by = "split_request" THEN [data EXCEPT ![at] = "nul"] ELSE data
  /\ at' = at + 1
  /\ UNCHANGED <<buffer, tokens, pc>>

(* split_request gives up at a terminator; the other tokens are not set.   *)
GiveUp ==
  /\ pc = "blanks" /\ data[at] = "nul" /\ by = "split_request"
  /\ pc' = "trailing"
  /\ UNCHANGED <<buffer, data, tokens, at>>

BeginToken ==
  /\ pc = "blanks" /\ data[at] # "blank"
  /\ by = "split_request" => data[at] # "nul"
  /\ tokens' = Append(tokens, <<at, at>>)
  /\ pc' = "word"
  /\ UNCHANGED <<buffer, data, at>>

(* Bug: only a blank ends a word.                                          *)
InTokenToBlank ==
  /\ pc = "word" /\ data[at] # "blank"
  /\ at' = at + 1
  /\ UNCHANGED <<buffer, data, tokens, pc>>

(* Bug: the pointer stays.                                                 *)
InTokenStays ==
  /\ pc = "word" /\ data[at] = "letter"
  /\ UNCHANGED vars

InToken ==
  /\ pc = "word" /\ data[at] = "letter"
  /\ at' = at + 1
  /\ UNCHANGED <<buffer, data, tokens, pc>>

EndToken ==
  /\ pc = "word" /\ data[at] # "letter"
  /\ tokens' = [tokens EXCEPT ![Len(tokens)] = <<@[1], at>>]
  /\ pc' = IF Len(tokens) < counted THEN "blanks" ELSE Rest(by)
  /\ UNCHANGED <<buffer, data, at>>

EndTrailing ==
  /\ pc = "trailing" /\ data[at] # "blank"
  /\ pc' = "done"
  /\ UNCHANGED <<buffer, data, tokens, at>>

(* free_lines, or the two kfree at the end of device_write.                *)
Release ==
  /\ pc = "done"
  /\ pc' = "idle"
  /\ asked' = <<>> /\ data' = <<"nul">> /\ tokens' = <<>> /\ at' = 1 /\ counted' = 0
  /\ by' = "split_line"

Work == SkipBlank \/ GiveUp \/ BeginToken \/ InToken \/ EndToken \/ EndTrailing \/ Release

Next == Split \/ Work

Spec == Init /\ [][Next]_vars

(* The functions wait for nothing.                                         *)
FairSpec == Spec /\ WF_vars(Work)

-----------------------------------------------------------------------------
(* Properties.                                                             *)

(* The pointer stays inside the buffer, and no token beyond the array is   *)
(* set, whatever the line.                                                 *)
TypeOK ==
  /\ by \in Splitters /\ asked \in Seq(Char)
  /\ data \in Seq(Char) /\ Len(data) = Len(asked) + 1 /\ data[Len(data)] = "nul"
  /\ at \in 1 .. Len(data)
  /\ counted \in 0 .. MaxLength
  /\ tokens \in Seq((1 .. Len(data)) \X (1 .. Len(data))) /\ Len(tokens) <= counted
  /\ pc \in {"idle", "blanks", "word", "trailing", "done"}

(* The characters that a reader of C strings sees of the line.             *)
Visible == {p \in 1 .. Len(asked) : \A q \in 1 .. p : asked[q] # "nul"}

(* The words of a line, by definition: maximal runs of letters, each with  *)
(* the place behind it.                                                    *)
Words ==
  {w \in Visible \X (2 .. Len(asked) + 1) :
     /\ w[1] < w[2]
     /\ \A p \in w[1] .. w[2] - 1 : asked[p] = "letter"
     /\ w[1] > 1 => asked[w[1] - 1] = "blank"
     /\ w[2] <= Len(asked) => asked[w[2]] # "letter"}

(* The string of token k: a copy, or what the buffer holds by now up to    *)
(* the next terminator.                                                    *)
TokenString(k) ==
  IF by = "split_line" THEN tokens[k]
  ELSE <<tokens[k][1],
         CHOOSE j \in tokens[k][1] .. Len(data) :
           data[j] = "nul" /\ \A p \in tokens[k][1] .. j - 1 : data[p] # "nul">>

(* Whatever blanks a line begins and ends with and has in between, the     *)
(* tokens are its words, in their order, up to the first terminator.       *)
TokensAreWords ==
  pc = "done" =>
    /\ {TokenString(k) : k \in DOMAIN tokens} = Words
    /\ \A k \in 2 .. Len(tokens) : tokens[k - 1][1] < tokens[k][1]

(* The two passes agree: without a terminator inside the line every token  *)
(* that is counted is set, so that device_write prints, and free_lines     *)
(* frees, only what is there.                                              *)
CountedAreSet ==
  pc = "done" /\ (\A p \in DOMAIN asked : asked[p] # "nul") => Len(tokens) = counted

(* Every line is split after finitely many steps.                          *)
EverySplitEnds == pc # "idle" ~> pc = "idle"
=============================================================================
