---------------------------- MODULE TokensProofs ----------------------------
(***************************************************************************)
(* Theorems about Tokens, for lines of every length.  The pointer stays    *)
(* inside the buffer because it stops at the last terminator.  That the    *)
(* pass that counts and the pass that cuts agree is shown by counting the  *)
(* ends of words still ahead of the pointer: they are as many as the       *)
(* tokens still to be set.  The tokens are the words because those that    *)
(* are set are the words that begin behind the pointer.  Every step lowers *)
(* a bound on those still to come.                                         *)
(***************************************************************************)
EXTENDS Tokens, FiniteSetTheorems, WellFoundedInduction, TLAPS

(* The places behind words, in a line without terminators inside.          *)
Ends(line) ==
  {e \in 2 .. Len(line) + 1 :
     line[e - 1] # "blank" /\ (e <= Len(line) => line[e] = "blank")}

Ahead(line, p) == {e \in Ends(line) : e > p}

Plain(line) == \A p \in 1 .. Len(line) : line[p] # "nul"

Typed ==
  /\ by \in Splitters
  /\ asked \in Seq(Char) /\ Len(asked) <= MaxLength
  /\ data \in Seq(Char) /\ Len(data) = Len(asked) + 1 /\ data[Len(data)] = "nul"
  /\ at \in 1 .. Len(data)
  /\ counted \in 0 .. MaxLength
  /\ tokens \in Seq((1 .. Len(data)) \X (1 .. Len(data)))
  /\ pc \in {"idle", "blanks", "word", "trailing", "done"}

Room ==
  /\ Len(tokens) <= counted
  /\ pc = "blanks" => Len(tokens) < counted
  /\ pc = "word" => Len(tokens) > 0

(* What the pointer has not passed is as it was.                           *)
AheadAsAsked == \A p \in 1 .. Len(asked) : at <= p => data[p] = asked[p]

(* The ends ahead, in either loop; while a word is cut its end is ahead,   *)
(* though the token is already there.                                      *)
CountsAgree ==
  /\ pc = "blanks" =>
       Cardinality(Ahead(asked, at)) = counted - Len(tokens)
  /\ pc = "word" =>
       /\ Cardinality(Ahead(asked, at - 1)) = counted - Len(tokens) + 1
       /\ \/ at <= Len(asked) /\ asked[at] = "letter"
          \/ at > 1 /\ asked[at - 1] = "letter"
  /\ pc \in {"trailing", "done"} => Len(tokens) = counted

IInv == Typed /\ Room /\ AheadAsAsked /\ (Plain(asked) => CountsAgree)

-----------------------------------------------------------------------------
(* What the first pass counts are the ends of words.                       *)
LEMMA CountedEnds ==
  ASSUME NEW line \in Seq(Char)
  PROVE  /\ IsFiniteSet(Ends(line))
         /\ Counted(line) = Cardinality(Ends(line))
         /\ Counted(line) \in 0 .. Len(line)
  <1> DEFINE n == Len(line)
             inside == {i \in 2 .. n : line[i] = "blank" /\ line[i - 1] # "blank"}
  <1>1. n \in Nat
    OBVIOUS
  <1>2. IsFiniteSet(2 .. n) /\ IsFiniteSet(2 .. n + 1)
    BY <1>1, FS_Interval
  <1>3. Cardinality(2 .. n + 1) = n
    <2>1. CASE n = 0
      BY <1>1, <2>1, FS_Interval
    <2>2. CASE n > 0
      BY <1>1, <2>2, FS_Interval
    <2> QED
      BY <1>1, <2>1, <2>2
  <1>4. inside \subseteq 2 .. n /\ Ends(line) \subseteq 2 .. n + 1
    BY DEF Ends
  <1>5. IsFiniteSet(inside) /\ Cardinality(inside) \in Nat
    BY <1>2, <1>4, FS_Subset, FS_CardinalityType
  <1>6. IsFiniteSet(Ends(line)) /\ Cardinality(Ends(line)) \in Nat /\ Cardinality(Ends(line)) <= n
    BY <1>2, <1>3, <1>4, FS_Subset, FS_CardinalityType
  <1>7. CASE line # <<>> /\ line[Len(line)] # "blank"
    <2>1. Ends(line) = inside \cup {n + 1}
      BY <1>1, <1>7 DEF Ends
    <2>2. n + 1 \notin inside
      BY <1>1
    <2>3. Cardinality(Ends(line)) = Cardinality(inside) + 1
      BY <1>5, <2>1, <2>2, FS_AddElement
    <2>4. Counted(line) = Cardinality(inside) + 1
      BY <1>7 DEF Counted
    <2> QED
      BY <1>6, <2>3, <2>4
  <1>8. CASE ~ (line # <<>> /\ line[Len(line)] # "blank")
    <2>1. Ends(line) = inside
      BY <1>1, <1>8 DEF Ends
    <2>2. Counted(line) = Cardinality(inside) + 0
      BY <1>8 DEF Counted
    <2> QED
      BY <1>5, <1>6, <2>1, <2>2
  <1> QED
    BY <1>7, <1>8

LEMMA InitHolds == Init => IInv
  BY LengthAssumption
     DEF Init, IInv, Typed, Room, AheadAsAsked, Plain, CountsAgree, Splitters, Char

LEMMA SplitHolds ==
  ASSUME IInv, Split
  PROVE  IInv'
  <1>1. PICK n \in 0 .. MaxLength :
           asked' \in [1 .. n -> IF by' = "split_line" THEN Char \ {"nul"} ELSE Char]
    BY DEF Split, Lines
  <1>2. asked' \in Seq(Char) /\ Len(asked') = n /\ n \in Nat
    BY <1>1, LengthAssumption DEF Char
  <1>3. /\ IsFiniteSet(Ends(asked'))
        /\ counted' = Cardinality(Ends(asked'))
        /\ counted' \in 0 .. n
    BY <1>2, CountedEnds DEF Split
  <1>4. /\ data' \in Seq(Char) /\ Len(data') = n + 1 /\ data'[n + 1] = "nul"
        /\ \A p \in 1 .. n : data'[p] = asked'[p]
    BY <1>2 DEF Split, Char
  <1>5. Typed'
    BY <1>2, <1>3, <1>4, LengthAssumption DEF Split, Typed, Rest
  <1>6. Room' /\ AheadAsAsked'
    BY <1>2, <1>3, <1>4 DEF Split, Room, AheadAsAsked, Rest
  <1>7. CountsAgree'
    <2>1. Ahead(asked', 1) = Ends(asked')
      BY <1>2 DEF Ahead, Ends
    <2>2. asked' = <<>> => counted' = 0
      BY <1>2, <1>3
    <2>3. Len(tokens') = 0 /\ at' = 1 /\ counted' \in Nat
      BY <1>2, <1>3 DEF Split
    <2>4. pc' # "word" /\ (pc' # "blanks" => counted' = 0)
      BY <2>2 DEF Split, Rest
    <2> QED
      BY <1>3, <2>1, <2>3, <2>4 DEF CountsAgree
  <1> QED
    BY <1>5, <1>6, <1>7 DEF IInv

LEMMA SkipBlankHolds ==
  ASSUME IInv, SkipBlank
  PROVE  IInv'
  <1>1. at < Len(data) /\ at + 1 \in 1 .. Len(data) /\ Len(data) = Len(asked) + 1
    BY DEF IInv, Typed, SkipBlank
  <1>2. /\ data' \in Seq(Char) /\ Len(data') = Len(data) /\ data'[Len(data)] = "nul"
        /\ \A p \in 1 .. Len(data) : p # at => data'[p] = data[p]
    <2>1. "nul" \in Char /\ data \in Seq(Char) /\ data[Len(data)] = "nul"
      BY DEF IInv, Typed, Char
    <2>2. CASE data' = data
      BY <2>1, <2>2
    <2>3. CASE data' = [data EXCEPT ![at] = "nul"]
      <3>1. data' \in [1 .. Len(data) -> Char]
        <4>1. data \in [1 .. Len(data) -> Char]
          BY <2>1
        <4> QED
          BY <2>1, <2>3, <4>1
      <3>2. data' \in Seq(Char) /\ Len(data') = Len(data)
        BY <2>1, <3>1
      <3>3. \A p \in 1 .. Len(data) : data'[p] = IF p = at THEN "nul" ELSE data[p]
        BY <2>1, <2>3
      <3> QED
        BY <1>1, <2>1, <3>2, <3>3
    <2> QED
      BY <2>2, <2>3 DEF SkipBlank
  <1>3. Typed'
    BY <1>1, <1>2 DEF IInv, Typed, SkipBlank, buffer
  <1>4. Room'
    BY DEF IInv, Room, SkipBlank, buffer
  <1>5. AheadAsAsked'
    BY <1>1, <1>2 DEF IInv, Typed, AheadAsAsked, SkipBlank, buffer
  <1>6. ASSUME Plain(asked) PROVE CountsAgree'
    <2>1. asked[at] = "blank"
      BY <1>1 DEF IInv, Typed, AheadAsAsked, SkipBlank
    <2>2. Ahead(asked, at) = Ahead(asked, at + 1)
      BY <1>1, <2>1 DEF Ahead, Ends, IInv, Typed
    <2> QED
      BY <1>6, <2>2 DEF IInv, CountsAgree, SkipBlank, buffer
  <1> QED
    BY <1>3, <1>4, <1>5, <1>6 DEF IInv, SkipBlank, buffer

(* With tokens still to set, a plain line has a letter ahead.              *)
LEMMA LetterAhead ==
  ASSUME IInv, Plain(asked), pc = "blanks", data[at] # "blank"
  PROVE  at <= Len(asked) /\ asked[at] = "letter"
  <1>1. CASE at > Len(asked)
    <2>1. Ahead(asked, at) = {}
      BY <1>1 DEF Ahead, Ends, IInv, Typed
    <2>2. counted - Len(tokens) = 0
      BY <1>1, <2>1, FS_EmptySet DEF IInv, CountsAgree
    <2> QED
      BY <2>2 DEF IInv, Typed, Room
  <1>2. CASE at <= Len(asked)
    BY <1>2 DEF IInv, Typed, AheadAsAsked, Plain, Char
  <1> QED
    BY <1>1, <1>2 DEF IInv, Typed

LEMMA GiveUpHolds ==
  ASSUME IInv, GiveUp
  PROVE  IInv'
  <1>1. ~ Plain(asked)
    <2> SUFFICES ASSUME Plain(asked) PROVE FALSE
      OBVIOUS
    <2>1. at <= Len(asked) /\ asked[at] = "letter"
      BY LetterAhead DEF GiveUp
    <2> QED
      BY <2>1 DEF IInv, Typed, AheadAsAsked, GiveUp
  <1> QED
    BY <1>1 DEF IInv, Typed, Room, AheadAsAsked, GiveUp, buffer

LEMMA BeginTokenHolds ==
  ASSUME IInv, BeginToken
  PROVE  IInv'
  <1>1. /\ tokens' \in Seq((1 .. Len(data)) \X (1 .. Len(data)))
        /\ Len(tokens') = Len(tokens) + 1
    BY DEF IInv, Typed, BeginToken
  <1>2. Typed' /\ Room' /\ AheadAsAsked'
    BY <1>1 DEF IInv, Typed, Room, AheadAsAsked, BeginToken, buffer
  <1>3. ASSUME Plain(asked) PROVE CountsAgree'
    <2>1. at <= Len(asked) /\ asked[at] = "letter"
      BY <1>3, LetterAhead DEF BeginToken
    <2>2. Ahead(asked, at) = Ahead(asked, at - 1)
      BY <2>1 DEF Ahead, Ends, IInv, Typed
    <2>3. Cardinality(Ahead(asked, at - 1)) = counted - Len(tokens') + 1
      BY <1>1, <1>3, <2>2 DEF IInv, Typed, CountsAgree, BeginToken
    <2> QED
      BY <2>1, <2>3 DEF CountsAgree, BeginToken, buffer
  <1> QED
    BY <1>2, <1>3 DEF IInv, BeginToken, buffer

LEMMA InTokenHolds ==
  ASSUME IInv, InToken
  PROVE  IInv'
  <1>1. at <= Len(asked) /\ at + 1 \in 1 .. Len(data) /\ asked[at] = "letter"
    BY DEF IInv, Typed, AheadAsAsked, InToken
  <1>2. Typed' /\ Room' /\ AheadAsAsked'
    <2>1. at' = at + 1 /\ at \in Nat /\ data' = data
      BY DEF IInv, Typed, InToken
    <2>2. AheadAsAsked'
      BY <2>1 DEF IInv, AheadAsAsked, InToken, buffer
    <2>3. Typed' /\ Room'
      BY <1>1, <2>1 DEF IInv, Typed, Room, InToken, buffer
    <2> QED
      BY <2>2, <2>3
  <1>3. ASSUME Plain(asked) PROVE CountsAgree'
    <2>1. Ahead(asked, at - 1) = Ahead(asked, at)
      BY <1>1 DEF Ahead, Ends, IInv, Typed
    <2>2. at \in Nat /\ at' = at + 1 /\ at' > 1 /\ at' - 1 = at
      BY DEF IInv, Typed, InToken
    <2>3. Cardinality(Ahead(asked, at' - 1)) = counted - Len(tokens) + 1
      BY <1>3, <2>1, <2>2 DEF IInv, CountsAgree, InToken
    <2> QED
      BY <1>1, <2>2, <2>3 DEF CountsAgree, InToken, buffer
  <1> QED
    BY <1>2, <1>3 DEF IInv, InToken, buffer

LEMMA EndTokenHolds ==
  ASSUME IInv, EndToken
  PROVE  IInv'
  <1>1. /\ tokens' \in Seq((1 .. Len(data)) \X (1 .. Len(data)))
        /\ Len(tokens') = Len(tokens)
    BY DEF IInv, Typed, Room, EndToken
  <1>2. Typed' /\ Room' /\ AheadAsAsked'
    BY <1>1 DEF IInv, Typed, Room, AheadAsAsked, EndToken, buffer, Rest
  <1>3. ASSUME Plain(asked) PROVE CountsAgree'
    <2> DEFINE ahead == Ahead(asked, at)
               here  == Ahead(asked, at - 1)
    <2>1. at <= Len(asked) => asked[at] = "blank"
      BY <1>3 DEF IInv, Typed, AheadAsAsked, EndToken, Plain, Char
    <2>2. at > 1 /\ asked[at - 1] = "letter"
      BY <1>3, <2>1 DEF IInv, CountsAgree, EndToken
    <2>3. at \in Ends(asked)
      BY <2>1, <2>2 DEF Ends, IInv, Typed
    <2>4. here = ahead \cup {at} /\ at \notin ahead
      BY <2>3 DEF Ahead, Ends, IInv, Typed
    <2>5. IsFiniteSet(ahead) /\ Cardinality(ahead) \in Nat
      <3>1. IsFiniteSet(Ends(asked))
        BY CountedEnds DEF IInv, Typed
      <3> QED
        BY <3>1, FS_Subset, FS_CardinalityType DEF Ahead
    <2>6. Cardinality(here) = Cardinality(ahead) + 1
      BY <2>4, <2>5, FS_AddElement
    <2>7. Cardinality(here) = counted - Len(tokens) + 1
      BY <1>3 DEF IInv, CountsAgree, EndToken
    <2>8. Cardinality(ahead) = counted - Len(tokens)
      <3>1. counted \in Int /\ Len(tokens) \in Int
        BY DEF IInv, Typed
      <3> HIDE DEF ahead, here
      <3> QED
        BY <2>5, <2>6, <2>7, <3>1
    <2>9. ~ (Len(tokens) < counted) => Len(tokens) = counted
      BY DEF IInv, Typed, Room
    <2> QED
      BY <1>1, <2>8, <2>9 DEF CountsAgree, EndToken, buffer, Rest
  <1> QED
    BY <1>2, <1>3 DEF IInv, EndToken, buffer

LEMMA EndTrailingHolds ==
  ASSUME IInv, EndTrailing
  PROVE  IInv'
  BY DEF IInv, Typed, Room, AheadAsAsked, CountsAgree, EndTrailing, buffer

LEMMA ReleaseHolds ==
  ASSUME Release
  PROVE  IInv'
  BY LengthAssumption
     DEF Release, IInv, Typed, Room, AheadAsAsked, Plain, CountsAgree, Splitters, Char

LEMMA StutterHolds ==
  ASSUME IInv, UNCHANGED vars
  PROVE  IInv'
  BY DEF vars, IInv, Typed, Room, AheadAsAsked, CountsAgree

LEMMA NextHolds ==
  ASSUME IInv, [Next]_vars
  PROVE  IInv'
  BY SplitHolds, SkipBlankHolds, GiveUpHolds, BeginTokenHolds, InTokenHolds, EndTokenHolds,
     EndTrailingHolds, ReleaseHolds, StutterHolds
     DEF Next, Work

(* Along every line the ends of words ahead of the pointer are as many as  *)
(* the tokens that split_line or split_request still has to set.           *)
THEOREM TokensInvariance == Spec => []IInv
  BY InitHolds, NextHolds, PTL DEF Spec

(* Whatever the bytes of a line, of any length, neither function reads     *)
(* beyond the terminator or sets a token beyond its array.                 *)
THEOREM PointerInside == Spec => []TypeOK
  <1>1. IInv => TypeOK
    BY DEF IInv, Typed, Room, TypeOK
  <1> QED
    BY <1>1, TokensInvariance, PTL

(* For lines of any length without a byte 0 inside, the pass that counts   *)
(* the words and the pass that cuts them agree: no token is left unset.    *)
THEOREM PassesAgree == Spec => []CountedAreSet
  <1>1. IInv => CountedAreSet
    BY DEF IInv, Typed, Plain, CountsAgree, CountedAreSet
  <1> QED
    BY <1>1, TokensInvariance, PTL
-----------------------------------------------------------------------------
(* The tokens are the words, also when terminators are inside a request.   *)

CleanBehind == \A q \in 1 .. at - 1 : asked[q] # "nul"

Blanked ==
  /\ by = "split_line" => Plain(asked)
  /\ by = "split_request" =>
       \A p \in 1 .. at - 1 : data[p] = (IF asked[p] = "blank" THEN "nul" ELSE asked[p])

AtTerminator == at <= Len(asked) => asked[at] = "nul"

(* The counts agree up to the first terminator inside the line.            *)
EndsAhead ==
  /\ pc = "blanks" => AtTerminator \/ Cardinality(Ahead(asked, at)) = counted - Len(tokens)
  /\ pc = "word" => Cardinality(Ahead(asked, at - 1)) = counted - Len(tokens) + 1

(* The first n tokens are the words that begin before p.                   *)
CutSoFar(n, p) ==
  /\ \A k \in 1 .. n : tokens[k] \in Words /\ tokens[k][1] < p /\ tokens[k][2] <= p
  /\ \A w \in Words : w[1] < p => \E k \in 1 .. n : tokens[k] = w

Ordered == \A k \in 2 .. Len(tokens) : tokens[k - 1][1] < tokens[k][1]

(* Where the last token begins, and that it is a word so far.              *)
First == tokens[Len(tokens)][1]

InWord ==
  /\ First \in 1 .. at /\ First <= Len(asked)
  /\ asked[First] = "letter"
  /\ \A p \in First .. at - 1 : asked[p] = "letter"
  /\ First > 1 => asked[First - 1] = "blank"

Cutting ==
  /\ pc = "blanks" =>
       /\ CutSoFar(Len(tokens), at)
       /\ at > 1 /\ at <= Len(asked) /\ asked[at] = "letter" => asked[at - 1] = "blank"
  /\ pc = "word" => InWord /\ CutSoFar(Len(tokens) - 1, First)
  /\ pc \in {"trailing", "done"} =>
       CutSoFar(Len(tokens), at) /\ \A w \in Words : w[1] < at
  /\ pc = "done" /\ by = "split_request"
       => (at <= Len(asked) => asked[at] # "blank")

CInv == CleanBehind /\ Blanked /\ EndsAhead /\ Ordered /\ Cutting

(* A nonempty set of places has a first one: among the intervals 1 .. k    *)
(* inclusion is well-founded.                                              *)
LEMMA FirstPlace ==
  ASSUME NEW n \in Nat, NEW S \in SUBSET (1 .. n), S # {}
  PROVE  \E m \in S : \A k \in S : m <= k
  <1> DEFINE Beginnings == {1 .. k : k \in S}
  <1>1. IsFiniteSet(1 .. n)
    BY FS_Interval
  <1>2. Beginnings # {} /\ Beginnings \subseteq SUBSET (1 .. n)
    <2>1. Beginnings # {}
      OBVIOUS
    <2>2. \A I \in Beginnings : I \subseteq 1 .. n
      OBVIOUS
    <2> QED
      BY <2>1, <2>2
  <1>3. PICK I \in Beginnings : \A J \in Beginnings : <<J, I>> \notin StrictSubsetOrdering(1 .. n)
    <2>1. Beginnings \subseteq FiniteSubsetsOf(1 .. n)
      BY <1>1, <1>2, FS_FiniteSubsetsOfFinite
    <2>2. IsWellFoundedOn(StrictSubsetOrdering(1 .. n), FiniteSubsetsOf(1 .. n))
      BY <1>1, FS_StrictSubsetOrderingWellFounded
    <2> HIDE DEF Beginnings
    <2> QED
      BY <1>2, <2>1, <2>2, WFMin
  <1>4. PICK m \in S : I = 1 .. m
    OBVIOUS
  <1>5. ASSUME NEW k \in S, k < m PROVE FALSE
    <2>1. 1 .. k \subseteq 1 .. m /\ 1 .. k # 1 .. m /\ 1 .. m \subseteq 1 .. n
      BY <1>5
    <2> QED
      BY <1>3, <1>4, <2>1 DEF StrictSubsetOrdering
  <1> QED
    BY <1>5

LEMMA WordFacts ==
  ASSUME Typed, NEW w \in Words
  PROVE  /\ w = <<w[1], w[2]>>
         /\ w[1] \in 1 .. Len(asked) /\ w[2] \in 2 .. Len(asked) + 1 /\ w[1] < w[2]
         /\ \A q \in 1 .. w[1] : asked[q] # "nul"
         /\ \A p \in w[1] .. w[2] - 1 : asked[p] = "letter"
         /\ asked[w[1]] = "letter"
         /\ w[1] > 1 => asked[w[1] - 1] = "blank"
         /\ w[2] <= Len(asked) => asked[w[2]] # "letter"
         /\ Len(asked) \in Nat
  BY DEF Words, Visible, Typed

(* A word ahead has an end ahead.                                          *)
LEMMA WordEnds ==
  ASSUME Typed, NEW w \in Words, NEW p \in Nat, p <= w[1]
  PROVE  Ahead(asked, p) # {}
  <1> DEFINE n == Len(asked)
             Stops == {e \in 1 .. n + 1 : w[1] < e /\ (e <= n => asked[e] = "blank")}
  <1>1. n \in Nat /\ w[1] \in 1 .. n /\ asked[w[1]] = "letter"
    BY WordFacts
  <1>2. Stops # {} /\ Stops \in SUBSET (1 .. n + 1) /\ n + 1 \in Nat
    <2>1. n + 1 \in Stops
      BY <1>1
    <2> QED
      BY <1>1, <2>1
  <1>3. PICK e \in Stops : \A f \in Stops : e <= f
    <2> HIDE DEF Stops
    <2> QED
      BY <1>2, FirstPlace
  <1>4. asked[e - 1] # "blank"
    <2>1. CASE e - 1 = w[1]
      BY <1>1, <2>1
    <2>2. CASE e - 1 # w[1]
      <3>1. e - 1 \notin Stops
        BY <1>3
      <3>2. e - 1 \in 1 .. n + 1 /\ w[1] < e - 1 /\ e - 1 <= n /\ ~ (e <= e - 1)
        BY <1>1, <1>3, <2>2
      <3> QED
        BY <3>1, <3>2
    <2> QED
      BY <2>1, <2>2
  <1>5. e \in Ends(asked) /\ e > p
    BY <1>1, <1>3, <1>4 DEF Ends
  <1> QED
    BY <1>5 DEF Ahead

(* Nothing is left to cut at a terminator, or with no end ahead.           *)
LEMMA NoWordAhead ==
  ASSUME Typed, AtTerminator \/ Cardinality(Ahead(asked, at)) = 0
  PROVE  \A w \in Words : w[1] < at
  <1> SUFFICES ASSUME NEW w \in Words, ~ (w[1] < at) PROVE FALSE
    OBVIOUS
  <1>1. at \in Nat /\ at <= w[1] /\ at \in 1 .. w[1]
    BY WordFacts DEF Typed
  <1>2. CASE AtTerminator
    BY <1>1, <1>2, WordFacts DEF AtTerminator
  <1>3. CASE Cardinality(Ahead(asked, at)) = 0
    <2>1. IsFiniteSet(Ahead(asked, at))
      <3>1. IsFiniteSet(Ends(asked))
        BY CountedEnds DEF Typed
      <3> QED
        BY <3>1, FS_Subset DEF Ahead
    <2>2. Ahead(asked, at) = {}
      BY <1>3, <2>1, FS_EmptySet
    <2> QED
      BY <1>1, <2>2, WordEnds
  <1> QED
    BY <1>2, <1>3
LEMMA SplitCuts ==
  ASSUME IInv, Split
  PROVE  CInv'
  <1>1. IInv' /\ Typed'
    BY SplitHolds DEF IInv
  <1>2. tokens' = <<>> /\ at' = 1 /\ data' = asked' \o <<"nul">> /\ counted' = Counted(asked')
        /\ asked' \in Seq(Char) /\ Len(asked') \in Nat
    BY <1>1 DEF Split, Typed
  <1>3. counted' = Cardinality(Ahead(asked', 1))
    <2>1. Ahead(asked', 1) = Ends(asked')
      BY <1>2 DEF Ahead, Ends
    <2> QED
      BY <1>2, <2>1, CountedEnds
  <1>4. pc' # "word" /\ (pc' # "blanks" => counted' = 0)
    <2>1. asked' = <<>> => counted' = 0
      <3>1. Counted(asked') \in 0 .. Len(asked')
        BY <1>2, CountedEnds
      <3> QED
        BY <1>2, <3>1
    <2> QED
      BY <2>1 DEF Split, Rest
  <1>5. EndsAhead'
    <2>1. counted' - Len(tokens') = counted'
      BY <1>1, <1>2 DEF Typed
    <2> QED
      BY <1>2, <1>3, <1>4, <2>1 DEF EndsAhead
  <1>6. Blanked'
    <2>1. by' = "split_line" => \A p \in 1 .. Len(asked') : asked'[p] # "nul"
      BY <1>2 DEF Split, Lines, Char
    <2> QED
      BY <1>2, <2>1 DEF Blanked, Plain
  <1>7. \A w \in Words' : ~ (w[1] < 1)
    BY <1>1, <1>2 DEF Words, Visible
  <1>8. CutSoFar(0, 1)'
    BY <1>7 DEF CutSoFar
  <1>9. counted' = 0 => \A w \in Words' : w[1] < at'
    <2>1. (Typed /\ (AtTerminator \/ Cardinality(Ahead(asked, at)) = 0) => \A w \in Words : w[1] < at)'
      BY NoWordAhead, PTL
    <2> QED
      BY <1>1, <1>2, <1>3, <2>1
  <1>10. pc' = "done" => asked' = <<>> \/ by' = "split_line"
    BY DEF Split, Rest
  <1>11. Cutting'
    BY <1>2, <1>4, <1>8, <1>9, <1>10 DEF Cutting, CutSoFar
  <1> QED
    BY <1>2, <1>5, <1>6, <1>11 DEF CInv, CleanBehind, Ordered

LEMMA SkipBlankCuts ==
  ASSUME IInv, CInv, SkipBlank
  PROVE  CInv'
  <1>1. /\ at <= Len(asked) /\ at \in Nat /\ at' = at + 1 /\ asked[at] = "blank"
        /\ Len(asked) \in Nat /\ Len(data) = Len(asked) + 1 /\ at > 0
    BY DEF IInv, Typed, AheadAsAsked, SkipBlank
  <1>2. asked' = asked /\ by' = by /\ tokens' = tokens /\ counted' = counted /\ pc' = pc
        /\ Words' = Words
    BY DEF SkipBlank, buffer, Words, Visible
  <1>3. CleanBehind'
    BY <1>1, <1>2 DEF CInv, CleanBehind
  <1>4. Blanked'
    <2>1. by = "split_request" => data' = [data EXCEPT ![at] = "nul"]
      BY DEF SkipBlank
    <2>2. data \in Seq(Char)
      BY DEF IInv, Typed
    <2> QED
      BY <1>1, <1>2, <2>1, <2>2 DEF CInv, Blanked
  <1>5. EndsAhead'
    <2>1. Ahead(asked, at) = Ahead(asked, at + 1)
      BY <1>1 DEF Ahead, Ends
    <2>2. ~ AtTerminator
      BY <1>1 DEF AtTerminator
    <2>3. pc # "word"
      BY DEF SkipBlank
    <2> QED
      BY <1>1, <1>2, <2>1, <2>2, <2>3 DEF CInv, EndsAhead
  <1>6. \A w \in Words : w[1] # at /\ w[1] \in Nat /\ w[2] \in Nat
    BY <1>1, WordFacts DEF IInv
  <1>7. CutSoFar(Len(tokens), at) => CutSoFar(Len(tokens), at + 1)
    BY <1>1, <1>6 DEF CutSoFar
  <1>8. CutSoFar(Len(tokens), at + 1) => CutSoFar(Len(tokens), at)'
    BY <1>1, <1>2 DEF CutSoFar
  <1>9. Cutting'
    BY <1>1, <1>2, <1>6, <1>7, <1>8 DEF CInv, Cutting, SkipBlank
  <1> QED
    BY <1>2, <1>3, <1>4, <1>5, <1>9 DEF CInv, Ordered

LEMMA GiveUpCuts ==
  ASSUME IInv, CInv, GiveUp
  PROVE  CInv'
  <1>1. asked' = asked /\ by' = by /\ tokens' = tokens /\ counted' = counted /\ at' = at
        /\ data' = data /\ Words' = Words
    BY DEF GiveUp, buffer, Words, Visible
  <1>2. AtTerminator
    BY DEF IInv, Typed, AheadAsAsked, GiveUp, AtTerminator
  <1>3. \A w \in Words : w[1] < at
    BY <1>2, NoWordAhead DEF IInv
  <1>4. CutSoFar(Len(tokens), at) /\ (CutSoFar(Len(tokens), at) => CutSoFar(Len(tokens), at)')
    BY <1>1 DEF CInv, Cutting, GiveUp, CutSoFar
  <1>5. pc' = "trailing"
    BY DEF GiveUp
  <1>6. Cutting'
    BY <1>1, <1>3, <1>4, <1>5 DEF Cutting
  <1> QED
    BY <1>1, <1>5, <1>6 DEF CInv, CleanBehind, Blanked, EndsAhead, Ordered, Plain

LEMMA BeginTokenCuts ==
  ASSUME IInv, CInv, BeginToken
  PROVE  CInv'
  <1>1. asked' = asked /\ by' = by /\ counted' = counted /\ at' = at /\ data' = data
        /\ Words' = Words /\ pc = "blanks" /\ pc' = "word"
    BY DEF BeginToken, buffer, Words, Visible
  <1>2. at \in Nat /\ at > 0 /\ at <= Len(asked) /\ asked[at] = "letter" /\ Len(asked) \in Nat
    <2>1. CASE by = "split_line"
      BY <1>1, <2>1, LetterAhead DEF IInv, Typed, CInv, Blanked, BeginToken
    <2>2. CASE by = "split_request"
      BY <2>2 DEF IInv, Typed, AheadAsAsked, BeginToken, Char
    <2> QED
      BY <2>1, <2>2 DEF IInv, Typed, Splitters
  <1>3. /\ Len(tokens) \in Nat /\ Len(tokens') = Len(tokens) + 1
        /\ tokens'[Len(tokens) + 1] = <<at, at>>
        /\ \A k \in 1 .. Len(tokens) : tokens'[k] = tokens[k]
    BY DEF IInv, Typed, BeginToken
  <1>4. First' = at
    BY <1>3 DEF First
  <1>5. CutSoFar(Len(tokens), at)
    BY <1>1 DEF CInv, Cutting
  <1>6. CutSoFar(Len(tokens) - 1, First)'
    <2>1. Len(tokens') - 1 = Len(tokens)
      BY <1>3
    <2> QED
      BY <1>1, <1>3, <1>4, <1>5, <2>1 DEF CutSoFar
  <1>7. InWord'
    BY <1>1, <1>2, <1>4 DEF InWord, CInv, Cutting
  <1>8. EndsAhead'
    <2>1. Ahead(asked, at) = Ahead(asked, at - 1)
      BY <1>2 DEF Ahead, Ends
    <2>2. Cardinality(Ahead(asked, at)) = counted - Len(tokens)
      BY <1>1, <1>2 DEF CInv, EndsAhead, AtTerminator
    <2>3. counted \in Nat
      BY DEF IInv, Typed
    <2> QED
      BY <1>1, <1>3, <2>1, <2>2, <2>3 DEF EndsAhead
  <1>9. Ordered'
    <2> SUFFICES ASSUME NEW k \in 2 .. Len(tokens')
                 PROVE  tokens'[k - 1][1] < tokens'[k][1]
      BY DEF Ordered
    <2>1. CASE k \in 2 .. Len(tokens)
      <3>1. tokens[k - 1][1] < tokens[k][1]
        BY <2>1 DEF CInv, Ordered
      <3> QED
        BY <1>3, <2>1, <3>1
    <2>2. CASE k = Len(tokens) + 1
      <3>1. Len(tokens) \in 1 .. Len(tokens)
        BY <1>3, <2>2
      <3>2. tokens[Len(tokens)][1] < at
        BY <1>5, <3>1 DEF CutSoFar
      <3>3. tokens'[k] = <<at, at>> /\ tokens'[k - 1] = tokens[Len(tokens)]
        BY <1>3, <2>2, <3>1
      <3> QED
        BY <3>2, <3>3
    <2> QED
      BY <1>3, <2>1, <2>2
  <1>10. Cutting'
    BY <1>1, <1>6, <1>7 DEF Cutting
  <1> QED
    BY <1>1, <1>8, <1>9, <1>10 DEF CInv, CleanBehind, Blanked, Plain

LEMMA InTokenCuts ==
  ASSUME IInv, CInv, InToken
  PROVE  CInv'
  <1>1. asked' = asked /\ by' = by /\ tokens' = tokens /\ counted' = counted /\ pc' = pc
        /\ data' = data /\ Words' = Words /\ pc = "word" /\ at' = at + 1
    BY DEF InToken, buffer, Words, Visible
  <1>2. at \in Nat /\ at > 0 /\ at <= Len(asked) /\ asked[at] = "letter" /\ Len(asked) \in Nat
        /\ data[at] = "letter"
    BY DEF IInv, Typed, AheadAsAsked, InToken
  <1>3. CleanBehind' /\ Blanked'
    BY <1>1, <1>2 DEF CInv, CleanBehind, Blanked, Plain
  <1>4. EndsAhead'
    <2>1. Ahead(asked, at - 1) = Ahead(asked, at)
      BY <1>2 DEF Ahead, Ends
    <2>2. at' - 1 = at
      BY <1>1, <1>2
    <2> QED
      BY <1>1, <2>1, <2>2 DEF CInv, EndsAhead
  <1>5. First' = First /\ InWord'
    BY <1>1, <1>2 DEF First, InWord, CInv, Cutting
  <1>6. CutSoFar(Len(tokens) - 1, First)'
    BY <1>1, <1>5 DEF CInv, Cutting, CutSoFar
  <1> QED
    BY <1>1, <1>3, <1>4, <1>5, <1>6 DEF CInv, Cutting, Ordered
LEMMA EndTokenCuts ==
  ASSUME IInv, CInv, EndToken
  PROVE  CInv'
  <1> DEFINE n == Len(tokens)
             w0 == <<First, at>>
  <1>1. asked' = asked /\ by' = by /\ counted' = counted /\ at' = at /\ data' = data
        /\ Words' = Words /\ pc = "word" /\ pc' \in {"blanks", Rest(by)}
    BY DEF EndToken, buffer, Words, Visible
  <1>2. /\ at \in Nat /\ at > 0 /\ at <= Len(asked) + 1 /\ Len(asked) \in Nat
        /\ at <= Len(asked) => asked[at] # "letter"
        /\ n \in Nat /\ n > 0 /\ counted \in Nat
    <2>1. at \in 1 .. Len(asked) + 1 /\ Len(asked) \in Nat
      BY DEF IInv, Typed
    <2>2. at <= Len(asked) => asked[at] = data[at]
      BY <2>1 DEF IInv, AheadAsAsked
    <2>3. n \in Nat /\ counted \in Nat
      BY DEF IInv, Typed
    <2>4. n > 0
      BY DEF IInv, Room, EndToken
    <2> QED
      BY <2>1, <2>2, <2>3, <2>4 DEF EndToken
  <1>3. InWord /\ CutSoFar(n - 1, First)
    BY <1>1 DEF CInv, Cutting
  <1>4. First \in Nat /\ First > 0 /\ First < at
    BY <1>2, <1>3 DEF InWord
  <1>5. w0 \in Words
    <2>1. \A q \in 1 .. First : asked[q] # "nul"
      BY <1>2, <1>4 DEF CInv, CleanBehind
    <2> QED
      BY <1>2, <1>3, <1>4, <2>1 DEF Words, Visible, InWord
  <1>6. /\ Len(tokens') = n /\ tokens'[n] = w0
        /\ \A k \in 1 .. n - 1 : tokens'[k] = tokens[k]
    BY <1>2 DEF IInv, Typed, EndToken, First
  <1>7. CutSoFar(n, at)'
    <2>1. ASSUME NEW k \in 1 .. n
          PROVE  tokens'[k] \in Words /\ tokens'[k][1] < at /\ tokens'[k][2] <= at
      <3>1. CASE k = n
        BY <1>2, <1>4, <1>5, <1>6, <3>1
      <3>2. CASE k # n
        <4>1. k \in 1 .. n - 1
          BY <1>2, <3>2
        <4>2. tokens[k] \in Words /\ tokens[k][1] < First /\ tokens[k][2] <= First
          BY <1>3, <4>1 DEF CutSoFar
        <4>3. tokens[k][1] \in Nat /\ tokens[k][2] \in Nat
          BY <4>2, WordFacts DEF IInv
        <4> QED
          BY <1>2, <1>4, <1>6, <4>1, <4>2, <4>3
      <3> QED
        BY <3>1, <3>2
    <2>2. ASSUME NEW w \in Words, w[1] < at
          PROVE  \E k \in 1 .. n : tokens'[k] = w
      <3>1. /\ w = <<w[1], w[2]>> /\ w[1] \in Nat /\ w[2] \in Nat /\ w[1] > 0 /\ w[1] < w[2]
            /\ w[2] <= Len(asked) + 1
            /\ \A p \in w[1] .. w[2] - 1 : asked[p] = "letter"
            /\ w[1] > 1 => asked[w[1] - 1] = "blank"
            /\ w[2] <= Len(asked) => asked[w[2]] # "letter"
        BY WordFacts DEF IInv
      <3>2. CASE w[1] < First
        BY <1>2, <1>3, <1>6, <3>2 DEF CutSoFar
      <3>3. CASE w[1] > First
        <4>1. w[1] - 1 \in First .. at - 1
          BY <1>2, <1>4, <2>2, <3>1, <3>3
        <4> QED
          BY <1>3, <1>4, <3>1, <3>3, <4>1 DEF InWord
      <3>4. CASE w[1] = First
        <4>1. ~ (w[2] < at)
          <5>1. w[2] < at => w[2] \in First .. at - 1 /\ w[2] <= Len(asked)
            BY <1>2, <1>4, <3>1, <3>4
          <5> QED
            BY <1>3, <3>1, <5>1 DEF InWord
        <4>2. ~ (at < w[2])
          <5>1. at < w[2] => at \in w[1] .. w[2] - 1 /\ at <= Len(asked)
            BY <1>2, <1>4, <3>1, <3>4
          <5> QED
            BY <1>2, <3>1, <5>1
        <4>3. w = w0
          BY <1>2, <3>1, <3>4, <4>1, <4>2
        <4> QED
          BY <1>2, <1>6, <4>3
      <3> QED
        BY <1>4, <3>1, <3>2, <3>3, <3>4
    <2> QED
      BY <1>1, <1>6, <2>1, <2>2 DEF CutSoFar
  <1>8. AtTerminator \/ Cardinality(Ahead(asked, at)) = counted - n
    <2> SUFFICES ASSUME at <= Len(asked), asked[at] = "blank"
                 PROVE  Cardinality(Ahead(asked, at)) = counted - n
      BY <1>2 DEF AtTerminator, IInv, Typed, Char
    <2> DEFINE ahead == Ahead(asked, at)
               here  == Ahead(asked, at - 1)
    <2>1. asked[at - 1] = "letter"
      BY <1>2, <1>3, <1>4 DEF InWord
    <2>2. here = ahead \cup {at} /\ at \notin ahead
      BY <1>2, <1>4, <2>1 DEF Ahead, Ends
    <2>3. IsFiniteSet(ahead) /\ Cardinality(ahead) \in Nat
      <3>1. IsFiniteSet(Ends(asked))
        BY CountedEnds DEF IInv, Typed
      <3> QED
        BY <3>1, FS_Subset, FS_CardinalityType DEF Ahead
    <2>4. Cardinality(here) = Cardinality(ahead) + 1
      BY <2>2, <2>3, FS_AddElement
    <2>5. Cardinality(here) = counted - n + 1
      BY <1>1 DEF CInv, EndsAhead
    <2> HIDE DEF ahead, here, n
    <2>6. Cardinality(ahead) = counted - n
      BY <1>2, <2>3, <2>4, <2>5
    <2> QED
      BY <2>6 DEF ahead
  <1>9. ASSUME pc' # "blanks" PROVE \A w \in Words : w[1] < at
    <2>1. counted - n = 0
      BY <1>2, <1>9 DEF EndToken, IInv, Room
    <2> QED
      BY <1>8, <2>1, NoWordAhead DEF IInv
  <1>10. pc' = "done" => by # "split_request"
    BY DEF EndToken, Rest
  <1>11. EndsAhead'
    <2>1. (AtTerminator \/ Cardinality(Ahead(asked, at)) = counted - n) => (pc' = "blanks" => (AtTerminator' \/ Cardinality(Ahead(asked', at')) = counted' - Len(tokens')))
      BY <1>1, <1>6 DEF AtTerminator
    <2> QED
      BY <1>1, <1>8, <2>1 DEF EndsAhead, Rest
  <1>12. Cutting'
    <2>1. CutSoFar(n, at)' => CutSoFar(Len(tokens), at)'
      BY <1>6 DEF CutSoFar
    <2>2. pc' # "word"
      BY <1>1 DEF Rest
    <2>3. at <= Len(asked) => asked[at] # "letter"
      BY <1>2
    <2> QED
      BY <1>1, <1>7, <1>9, <1>10, <2>1, <2>2, <2>3 DEF Cutting
  <1>13. Ordered'
    <2>1. ASSUME NEW k \in 2 .. n PROVE tokens'[k - 1][1] < tokens'[k][1]
      <3>1. k - 1 \in 1 .. n - 1 /\ k \in Nat
        BY <1>2
      <3>2. tokens'[k - 1] = tokens[k - 1] /\ tokens'[k][1] = tokens[k][1]
        BY <1>2, <1>6, <3>1 DEF First
      <3> QED
        BY <3>2 DEF CInv, Ordered
    <2> QED
      BY <1>6, <2>1 DEF Ordered
  <1> QED
    BY <1>1, <1>11, <1>12, <1>13 DEF CInv, CleanBehind, Blanked, Plain

LEMMA EndTrailingCuts ==
  ASSUME IInv, CInv, EndTrailing
  PROVE  CInv'
  <1>1. asked' = asked /\ by' = by /\ counted' = counted /\ at' = at /\ data' = data
        /\ tokens' = tokens /\ Words' = Words /\ pc = "trailing" /\ pc' = "done"
    BY DEF EndTrailing, buffer, Words, Visible
  <1>2. at <= Len(asked) => asked[at] # "blank"
    BY DEF IInv, Typed, AheadAsAsked, EndTrailing
  <1>3. CutSoFar(Len(tokens), at) => CutSoFar(Len(tokens), at)'
    BY <1>1 DEF CutSoFar
  <1>4. Cutting'
    BY <1>1, <1>2, <1>3 DEF CInv, Cutting
  <1> QED
    BY <1>1, <1>4 DEF CInv, CleanBehind, Blanked, EndsAhead, Ordered, Plain

LEMMA IdleCuts ==
  ASSUME pc = "idle", asked = <<>>, data = <<"nul">>, tokens = <<>>, at = 1, by = "split_line"
  PROVE  CInv
  BY DEF CInv, CleanBehind, Blanked, Plain, EndsAhead, Ordered, Cutting

LEMMA InitCuts == Init => CInv
  BY IdleCuts DEF Init

LEMMA ReleaseCuts ==
  ASSUME Release
  PROVE  CInv'
  BY DEF Release, CInv, CleanBehind, Blanked, Plain, EndsAhead, Ordered, Cutting

LEMMA StutterCuts ==
  ASSUME CInv, UNCHANGED vars
  PROVE  CInv'
  <1>1. asked' = asked /\ by' = by /\ counted' = counted /\ at' = at /\ data' = data
        /\ tokens' = tokens /\ Words' = Words /\ pc' = pc /\ First' = First
    BY DEF vars, Words, Visible, First
  <1>2. \A n, p : CutSoFar(n, p) => CutSoFar(n, p)'
    BY <1>1 DEF CutSoFar
  <1>3. Cutting'
    BY <1>1, <1>2 DEF CInv, Cutting, InWord, CutSoFar
  <1> QED
    BY <1>1, <1>3 DEF CInv, CleanBehind, Blanked, EndsAhead, Ordered, Plain, AtTerminator

LEMMA NextCuts ==
  ASSUME IInv, CInv, [Next]_vars
  PROVE  CInv'
  BY SplitCuts, SkipBlankCuts, GiveUpCuts, BeginTokenCuts, InTokenCuts, EndTokenCuts,
     EndTrailingCuts, ReleaseCuts, StutterCuts
     DEF Next, Work

(* When both loops have ended the string of a token ends where its word    *)
(* does: split_request has put a terminator there, or found one.           *)
LEMMA StringIsWord ==
  ASSUME IInv, CInv, pc = "done", NEW k \in DOMAIN tokens
  PROVE  TokenString(k) = tokens[k] /\ tokens[k] \in Words
  <1>1. k \in 1 .. Len(tokens) /\ tokens[k] \in Words /\ tokens[k][2] <= at
    BY DEF IInv, Typed, CInv, Cutting, CutSoFar
  <1>2. CASE by = "split_line"
    BY <1>1, <1>2 DEF TokenString
  <1>3. CASE by = "split_request"
    <2> DEFINE b == tokens[k][1]
               e == tokens[k][2]
               Stop(j) == data[j] = "nul" /\ \A p \in b .. j - 1 : data[p] # "nul"
    <2>1. /\ tokens[k] = <<b, e>>
          /\ b \in 1 .. Len(asked) /\ e \in 2 .. Len(asked) + 1 /\ b < e
          /\ \A p \in b .. e - 1 : asked[p] = "letter"
          /\ e <= Len(asked) => asked[e] # "letter"
          /\ Len(asked) \in Nat /\ Len(data) = Len(asked) + 1 /\ data[Len(data)] = "nul"
          /\ at \in Nat /\ at > 0 /\ at <= Len(asked) + 1
      BY <1>1, WordFacts DEF IInv, Typed
    <2>2. \A p \in 1 .. Len(asked) :
             data[p] = IF p < at /\ asked[p] = "blank" THEN "nul" ELSE asked[p]
      BY <1>3, <2>1 DEF IInv, AheadAsAsked, CInv, Blanked
    <2>3. \A p \in b .. e - 1 : data[p] # "nul"
      BY <2>1, <2>2
    <2>4. data[e] = "nul"
      <3>1. CASE e = Len(asked) + 1
        BY <2>1, <3>1
      <3>2. CASE e <= Len(asked)
        <4>1. asked[e] = "blank" \/ asked[e] = "nul"
          BY <2>1, <3>2 DEF IInv, Typed, Char
        <4>2. asked[e] = "blank" => e < at
          <5>1. at <= Len(asked) => asked[at] # "blank"
            BY <1>3 DEF CInv, Cutting
          <5> QED
            BY <1>1, <2>1, <3>2, <5>1
        <4> QED
          BY <2>1, <2>2, <3>2, <4>1, <4>2
      <3> QED
        BY <2>1, <3>1, <3>2
    <2>5. e \in b .. Len(data) /\ Stop(e)
      BY <2>1, <2>3, <2>4
    <2>6. \A j \in b .. Len(data) : Stop(j) => j = e
      <3> SUFFICES ASSUME NEW j \in b .. Len(data), Stop(j), j # e PROVE FALSE
        OBVIOUS
      <3>1. CASE j < e
        BY <2>1, <2>3, <3>1
      <3>2. CASE e < j
        <4>1. e \in b .. j - 1
          BY <2>1, <3>2
        <4> QED
          BY <2>4, <4>1
      <3> QED
        BY <2>1, <3>1, <3>2
    <2>7. (CHOOSE j \in b .. Len(data) : Stop(j)) = e
      <3> HIDE DEF Stop, b, e
      <3> QED
        BY <2>5, <2>6
    <2> QED
      BY <1>1, <1>3, <2>1, <2>7 DEF TokenString
  <1> QED
    BY <1>2, <1>3 DEF IInv, Typed, Splitters

(* For lines of any length and any bytes the tokens are the words up to    *)
(* the first byte 0, in their order.                                       *)
THEOREM WordsAreCut == Spec => []TokensAreWords
  <1>1. IInv /\ CInv => TokensAreWords
    <2> SUFFICES ASSUME IInv, CInv, pc = "done" PROVE TokensAreWords
      BY DEF TokensAreWords
    <2>1. DOMAIN tokens = 1 .. Len(tokens)
      BY DEF IInv, Typed
    <2>2. \A w \in Words : \E k \in DOMAIN tokens : tokens[k] = w
      BY <2>1 DEF CInv, Cutting, CutSoFar
    <2>3. {TokenString(k) : k \in DOMAIN tokens} = Words
      BY <2>2, StringIsWord
    <2> QED
      BY <2>3 DEF TokensAreWords, CInv, Ordered
  <1>2. IInv /\ CInv /\ [Next]_vars => CInv'
    BY NextCuts
  <1> QED
    BY <1>1, <1>2, InitCuts, TokensInvariance, PTL DEF Spec

-----------------------------------------------------------------------------
(* How long it takes.                                                      *)

(* Steps of a loop that are still to come, at most: two for each token to  *)
(* be set, one for each character, and those that leave the loops.         *)
StepsLeft ==
  2 * (counted - Len(tokens)) + (Len(data) - at)
    + IF pc = "word" THEN 4 ELSE IF pc = "blanks" THEN 3
      ELSE IF pc = "trailing" THEN 2 ELSE IF pc = "done" THEN 1 ELSE 0

LEMMA WorkIsSpent ==
  ASSUME IInv, Work
  PROVE  StepsLeft' < StepsLeft
<1>1. /\ counted \in Nat /\ Len(tokens) \in Nat /\ Len(data) \in Nat /\ at \in Nat
      /\ Len(tokens) <= counted /\ at <= Len(data)
  BY DEF IInv, Typed, Room
<1>2. CASE SkipBlank
  <2>1. Len(data') = Len(data) /\ at' = at + 1
    BY <1>2 DEF SkipBlank, IInv, Typed
  <2> QED BY <1>1, <1>2, <2>1 DEF SkipBlank, buffer, StepsLeft
<1>3. CASE GiveUp
  BY <1>1, <1>3 DEF GiveUp, buffer, StepsLeft
<1>4. CASE BeginToken
  <2>1. Len(tokens') = Len(tokens) + 1
    BY <1>4 DEF BeginToken, IInv, Typed
  <2> QED BY <1>1, <1>4, <2>1 DEF BeginToken, buffer, StepsLeft
<1>5. CASE InToken
  BY <1>1, <1>5 DEF InToken, buffer, StepsLeft
<1>6. CASE EndToken
  <2>1. Len(tokens') = Len(tokens)
    BY <1>6 DEF EndToken, IInv, Typed
  <2>2. pc' \in {"blanks", "trailing", "done"}
    BY <1>6 DEF EndToken, Rest
  <2>3. pc = "word" /\ counted' = counted /\ data' = data /\ at' = at
    BY <1>6 DEF EndToken, buffer
  <2> QED BY <1>1, <2>1, <2>2, <2>3 DEF StepsLeft
<1>7. CASE EndTrailing
  BY <1>1, <1>7 DEF EndTrailing, buffer, StepsLeft
<1>8. CASE Release
  <2>1. pc = "done" /\ pc' = "idle" /\ counted' = 0 /\ tokens' = << >> /\ at' = 1
        /\ data' = <<"nul">>
    BY <1>8 DEF Release
  <2>2. StepsLeft' = 0
    BY <2>1 DEF StepsLeft
  <2>3. StepsLeft >= 1
    BY <1>1, <2>1 DEF StepsLeft
  <2>4. StepsLeft \in Int
    BY <1>1 DEF StepsLeft
  <2> QED BY <2>2, <2>3, <2>4
<1> QED BY <1>2, <1>3, <1>4, <1>5, <1>6, <1>7, <1>8 DEF Work

LEMMA CountedFits ==
  ASSUME IInv, counted <= Len(asked), [Next]_vars
  PROVE  counted' <= Len(asked)'
<1>1. CASE Split
  <2>1. asked' \in Seq(Char)
    BY <1>1 DEF Split, Lines, Char
  <2> QED BY <1>1, <2>1, CountedEnds DEF Split
<1>2. CASE Release
  BY <1>2 DEF Release
<1> QED
  BY <1>1, <1>2 DEF Next, Work, vars, buffer, SkipBlank, GiveUp, BeginToken, InToken, EndToken,
                    EndTrailing

(* Neither function runs on: each of their steps brings the end closer,    *)
(* and no line takes more than three of them a character, and three.       *)
THEOREM SplitIsLinear ==
  Spec => /\ [](StepsLeft \in 0 .. 3 * Len(asked) + 3)
          /\ [][Work => StepsLeft' < StepsLeft]_vars
<1>1. Init => counted <= Len(asked)
  BY DEF Init
<1>2. IInv /\ counted <= Len(asked) => StepsLeft \in 0 .. 3 * Len(asked) + 3
  BY DEF IInv, Typed, Room, StepsLeft
<1>3. IInv /\ [Next]_vars => [Work => StepsLeft' < StepsLeft]_vars
  BY WorkIsSpent
<1>4. IInv /\ counted <= Len(asked) /\ [Next]_vars => (counted <= Len(asked))'
  BY CountedFits
<1> QED BY <1>1, <1>2, <1>3, <1>4, TokensInvariance, PTL DEF Spec
=============================================================================
