------------------------- MODULE LineEditor_proofs -------------------------
(***************************************************************************)
(* Proofs about LineEditor, for any buffer size, any characters, and       *)
(* whatever user_input holds before the first key.                         *)
(***************************************************************************)
EXTENDS LineEditor, WellFoundedInduction, TLAPS

Buffer == [Index -> Cell]

\* buf starts with the characters of line.
Holds(buf, line) == \A k \in DOMAIN line : buf[k-1] = line[k]

\* A nonempty set of naturals has a least member.
LEMMA LeastMember ==
  ASSUME NEW S \in SUBSET Nat, S # {}
  PROVE  \E x \in S : \A y \in S : x <= y
<1>1. PICK x \in S : \A y \in S : ~(<<y, x>> \in OpToRel(<, Nat))
  BY NatLessThanWellFounded, WFMin
<1>2. \A y \in S : ~(y < x)
  BY <1>1 DEF OpToRel
<1> QED BY <1>2

\* strlen() is defined for every buffer, and stops at the first NUL.
LEMMA StrLenIs ==
  ASSUME NEW buf \in Buffer
  PROVE  /\ StrLen(buf) \in 0 .. USER_INPUT_MAX
         /\ StrLen(buf) = USER_INPUT_MAX \/ buf[StrLen(buf)] = NUL
         /\ \A k \in 0 .. StrLen(buf)-1 : buf[k] # NUL
<1> DEFINE S == {n \in 0 .. USER_INPUT_MAX : n = USER_INPUT_MAX \/ buf[n] = NUL}
<1>1. S \subseteq Nat /\ USER_INPUT_MAX \in S
  BY EditorAssumption
<1>2. PICK n \in S : \A y \in S : n <= y
  BY <1>1, LeastMember
<1>3. \A k \in 0 .. n-1 : buf[k] # NUL
  BY <1>2, EditorAssumption
<1> QED BY <1>2, <1>3 DEF StrLen

\* A line of characters that is ended is read back as it is.
LEMMA ReadBack ==
  ASSUME NEW buf \in Buffer, NEW line \in Seq(Char), Holds(buf, line),
         Len(line) < USER_INPUT_MAX, buf[Len(line)] = NUL
  PROVE  CString(buf) = line
<1> DEFINE n == StrLen(buf)
<1>1. /\ n \in 0 .. USER_INPUT_MAX
      /\ n = USER_INPUT_MAX \/ buf[n] = NUL
      /\ \A k \in 0 .. n-1 : buf[k] # NUL
  BY StrLenIs
<1>2. \A k \in 0 .. Len(line)-1 : buf[k] # NUL
  <2> SUFFICES ASSUME NEW k \in 0 .. Len(line)-1 PROVE buf[k] # NUL
    OBVIOUS
  <2>1. k + 1 \in DOMAIN line /\ (k + 1) - 1 = k
    OBVIOUS
  <2>2. buf[k] = line[k+1] /\ line[k+1] \in Char
    BY <2>1 DEF Holds
  <2> QED BY <2>2, EditorAssumption
<1> HIDE DEF n
<1>3. n = Len(line)
  BY <1>1, <1>2, EditorAssumption
<1>4. CString(buf) = [k \in 1 .. Len(line) |-> buf[k-1]]
  BY <1>3 DEF CString, n
<1>5. \A k \in 1 .. Len(line) : buf[k-1] = line[k]
  BY DEF Holds
<1>6. line = [k \in 1 .. Len(line) |-> line[k]]
  OBVIOUS
<1> QED BY <1>4, <1>5, <1>6

\* Whatever follows, a buffer that holds a line is read as that line and more.
LEMMA ReadsAtLeast ==
  ASSUME NEW buf \in Buffer, NEW line \in Seq(Char), Holds(buf, line),
         Len(line) < USER_INPUT_MAX
  PROVE  IsPrefix(line, CString(buf))
<1> DEFINE n == StrLen(buf)
           str == CString(buf)
<1>1. /\ n \in 0 .. USER_INPUT_MAX
      /\ n = USER_INPUT_MAX \/ buf[n] = NUL
  BY StrLenIs
<1>2. \A k \in 0 .. Len(line)-1 : buf[k] # NUL
  <2> SUFFICES ASSUME NEW k \in 0 .. Len(line)-1 PROVE buf[k] # NUL
    OBVIOUS
  <2>1. k + 1 \in DOMAIN line /\ (k + 1) - 1 = k
    OBVIOUS
  <2>2. buf[k] = line[k+1] /\ line[k+1] \in Char
    BY <2>1 DEF Holds
  <2> QED BY <2>2, EditorAssumption
<1>3. str \in Seq(Cell) /\ Len(str) = n /\ \A k \in 1 .. n : str[k] = buf[k-1]
  <2>1. str = [k \in 1 .. n |-> buf[k-1]]
    BY DEF CString
  <2>2. \A k \in 1 .. n : buf[k-1] \in Cell
    BY <1>1, EditorAssumption DEF Buffer, Index
  <2> HIDE DEF n, str
  <2> QED BY <1>1, <2>1, <2>2
<1> HIDE DEF n, str
<1>4. Len(line) <= n
  BY <1>1, <1>2, EditorAssumption
<1>5. \A k \in 1 .. Len(line) : str[k] = line[k]
  BY <1>3, <1>4 DEF Holds
<1>6. SubSeq(line, 1, Len(line)) = SubSeq(str, 1, Len(line))
  BY <1>1, <1>3, <1>4, <1>5
<1>7. Len(line) <= Len(str)
  BY <1>3, <1>4
<1> QED BY <1>6, <1>7 DEF IsPrefix, str

\* What the buffer is read as consists of cells.
LEMMA ReadCells ==
  ASSUME NEW buf \in Buffer
  PROVE  CString(buf) \in Seq(Cell)
<1> DEFINE n == StrLen(buf)
<1>1. n \in 0 .. USER_INPUT_MAX
  BY StrLenIs
<1> HIDE DEF n
<1>2. \A k \in 1 .. n : buf[k-1] \in Cell
  BY <1>1, EditorAssumption DEF Buffer, Index
<1>3. [k \in 1 .. n |-> buf[k-1]] \in Seq(Cell)
  BY <1>1, <1>2
<1> QED BY <1>3 DEF CString, n

----------------------------------------------------------------------------
(***************************************************************************)
(* string_parser: the argument it finds is the one the user typed.         *)
(***************************************************************************)
\* Min is the least member.
LEMMA MinIs ==
  ASSUME NEW S \in SUBSET Nat, S # {}
  PROVE  /\ Min(S) \in S /\ \A y \in S : Min(S) <= y
         /\ \A x \in S : (\A y \in S : x <= y) => Min(S) = x
<1> DEFINE Least(x) == \A y \in S : x <= y
<1>1. PICK x \in S : Least(x)
  BY LeastMember
<1>2. Min(S) = CHOOSE y \in S : Least(y)
  BY DEF Min
<1>3. Min(S) \in S /\ Least(Min(S))
  <2> HIDE DEF Least
  <2> QED BY <1>1, <1>2
<1>4. ASSUME NEW y \in S, Least(y)
      PROVE  Min(S) = y
  <2>1. Min(S) <= y /\ y <= Min(S) /\ Min(S) \in Nat /\ y \in Nat
    BY <1>3, <1>4
  <2> HIDE DEF Least
  <2> QED BY <2>1
<1> QED BY <1>3, <1>4

\* A word ends at the next space, or behind the line.
LEMMA WordEndIs ==
  ASSUME NEW line \in Seq(Char), NEW j \in 1 .. Len(line) + 1
  PROVE  /\ WordEnd(line, j) \in j .. Len(line) + 1
         /\ \A k \in j .. WordEnd(line, j) - 1 : line[k] # Space
         /\ WordEnd(line, j) <= Len(line) => line[WordEnd(line, j)] = Space
         /\ \A n \in j .. Len(line) + 1 :
              /\ \A k \in j .. n - 1 : line[k] # Space
              /\ n <= Len(line) => line[n] = Space
              => WordEnd(line, j) = n
<1> DEFINE S == {k \in j .. Len(line) : line[k] = Space} \cup {Len(line) + 1}
           n == Min(S)
<1>0. Len(line) \in Nat /\ j \in Nat
  OBVIOUS
<1>1. S \in SUBSET Nat /\ S # {} /\ S \subseteq j .. Len(line) + 1
  BY <1>0
<1>2. n \in S /\ \A k \in S : n <= k
  BY <1>1, MinIs
<1>3. n \in j .. Len(line) + 1 /\ (n <= Len(line) => line[n] = Space)
  BY <1>0, <1>1, <1>2
<1>4. \A k \in j .. n - 1 : line[k] # Space
  BY <1>0, <1>2, <1>3
<1>5. ASSUME NEW m \in j .. Len(line) + 1, \A k \in j .. m - 1 : line[k] # Space,
             m <= Len(line) => line[m] = Space
      PROVE  n = m
  <2>1. m \in S
    BY <1>0, <1>5
  <2>2. \A k \in S : m <= k
    BY <1>0, <1>5
  <2> HIDE DEF S
  <2> QED BY <1>1, <2>1, <2>2, MinIs
<1>6. WordEnd(line, j) = n
  BY DEF WordEnd
<1> QED BY <1>3, <1>4, <1>5, <1>6

\* The argument begins behind the command word and its spaces, and ends at a
\* space or with the line.
LEMMA ArgumentFound ==
  ASSUME NEW line \in Seq(Char), Rest(line) # {}
  PROVE  LET p == Min(Rest(line))
             q == WordEnd(line, p)
         IN  /\ WordEnd(line, 1) \in 1 .. p - 1 /\ p \in 1 .. Len(line)
             /\ \A k \in 1 .. p - 1 : line[k] = Space <=> k >= WordEnd(line, 1)
             /\ q \in p + 1 .. Len(line) + 1
             /\ \A k \in p .. q - 1 : line[k] # Space
             /\ q <= Len(line) => line[q] = Space
<1> DEFINE e == WordEnd(line, 1)
           p == Min(Rest(line))
           q == WordEnd(line, p)
<1>0. Len(line) \in Nat /\ 1 \in 1 .. Len(line) + 1
  OBVIOUS
<1>1. /\ e \in 1 .. Len(line) + 1
      /\ \A k \in 1 .. e - 1 : line[k] # Space
      /\ e <= Len(line) => line[e] = Space
  BY <1>0, WordEndIs
<1>2. Rest(line) = {k \in e .. Len(line) : line[k] # Space}
  BY DEF Rest
<1> HIDE DEF e
<1>3. Rest(line) \in SUBSET Nat
  BY <1>0, <1>1, <1>2
<1>4. p \in Rest(line) /\ \A k \in Rest(line) : p <= k
  BY <1>3, MinIs
<1>5. p \in e .. Len(line) /\ line[p] # Space /\ p # e /\ e \in 1 .. p - 1 /\ p \in 1 .. Len(line)
  BY <1>0, <1>1, <1>2, <1>4
<1> HIDE DEF p
<1>6. \A k \in e .. p - 1 : line[k] = Space
  <2> SUFFICES ASSUME NEW k \in e .. p - 1, line[k] # Space
               PROVE  FALSE
    OBVIOUS
  <2>1. k \in e .. Len(line) /\ ~(p <= k)
    BY <1>0, <1>1, <1>5
  <2> QED BY <1>2, <1>4, <2>1
<1>7. /\ q \in p .. Len(line) + 1
      /\ \A k \in p .. q - 1 : line[k] # Space
      /\ q <= Len(line) => line[q] = Space
  BY <1>0, <1>5, WordEndIs
<1> HIDE DEF q
<1>8. q # p
  BY <1>0, <1>5, <1>7
<1>9. \A k \in 1 .. p - 1 : line[k] = Space <=> k >= e
  BY <1>0, <1>1, <1>5, <1>6
<1>10. q \in p + 1 .. Len(line) + 1
  BY <1>0, <1>5, <1>7, <1>8
<1> QED BY <1>5, <1>7, <1>9, <1>10 DEF e, p, q

\* Rest and Argument find what IsArgument means.
LEMMA ArgumentIsGiven ==
  ASSUME NEW line \in Seq(Char), Rest(line) # {}
  PROVE  Argument(line) \in GivenBy(line) /\ Argument(line) \in Seq(Char)
<1> DEFINE e == WordEnd(line, 1)
           p == Min(Rest(line))
           q == WordEnd(line, p)
           w == Argument(line)
<1>0. Len(line) \in Nat
  OBVIOUS
<1>1. /\ e \in 1 .. p - 1 /\ p \in 1 .. Len(line)
      /\ \A k \in 1 .. p - 1 : line[k] = Space <=> k >= e
      /\ q \in p + 1 .. Len(line) + 1
      /\ \A k \in p .. q - 1 : line[k] # Space
      /\ q <= Len(line) => line[q] = Space
  BY ArgumentFound
<1>2. w = SubSeq(line, p, q - 1)
  BY DEF Argument
<1> HIDE DEF e, p, q, w
<1>3. e \in DOMAIN line /\ p \in DOMAIN line /\ q - 1 \in DOMAIN line /\ e < p
  BY <1>0, <1>1
<1>4. /\ w \in Seq(Char) /\ Len(w) = q - p
      /\ \A k \in 1 .. q - p : w[k] = line[p + k - 1]
  BY <1>0, <1>1, <1>2
<1>5. w # <<>> /\ Space \notin ToSet(w)
  <2>1. \A k \in 1 .. q - p : w[k] # Space
    BY <1>0, <1>1, <1>4
  <2> QED BY <1>0, <1>1, <1>4, <2>1 DEF ToSet
<1>6. IsPrefix(w, SubSeq(line, p, Len(line)))
  <2> DEFINE tail == SubSeq(line, p, Len(line))
  <2>1. /\ tail \in Seq(Char) /\ Len(tail) = Len(line) - p + 1
        /\ \A k \in 1 .. Len(line) - p + 1 : tail[k] = line[p + k - 1]
    BY <1>0, <1>1
  <2> HIDE DEF tail
  <2>2. Len(w) <= Len(tail) /\ \A k \in 1 .. Len(w) : w[k] = tail[k]
    <3>1. q - p <= Len(line) - p + 1 /\ 1 .. q - p \subseteq 1 .. Len(line) - p + 1
      BY <1>0, <1>1
    <3> QED BY <1>4, <2>1, <3>1
  <2>3. SubSeq(w, 1, Len(w)) = SubSeq(tail, 1, Len(w))
    BY <1>4, <2>1, <2>2
  <2> QED BY <2>2, <2>3 DEF IsPrefix, tail
<1>7. p + Len(w) = q
  BY <1>0, <1>1, <1>4
<1>8. IsArgument(w, line)
  <2>1. p + Len(w) \in DOMAIN line => line[p + Len(w)] = Space
    BY <1>0, <1>1, <1>7
  <2> QED BY <1>1, <1>3, <1>5, <1>6, <2>1 DEF IsArgument
<1>9. w \in {SubSeq(line, i, j) : i, j \in DOMAIN line}
  <2>1. PICK i, j \in DOMAIN line : i = p /\ j = q - 1
    BY <1>3
  <2>2. w = SubSeq(line, i, j)
    BY <1>2, <2>1
  <2> QED BY <2>2
<1> QED BY <1>4, <1>8, <1>9 DEF GivenBy, w

\* It is the only one.
LEMMA GivenIsArgument ==
  ASSUME NEW line \in Seq(Char), NEW w \in GivenBy(line)
  PROVE  Rest(line) # {} /\ w = Argument(line)
<1>0. Len(line) \in Nat
  OBVIOUS
<1>1. w \in Seq(Char) /\ IsArgument(w, line)
  <2>1. PICK a, b \in DOMAIN line : w = SubSeq(line, a, b)
    BY DEF GivenBy
  <2> QED BY <2>1 DEF GivenBy
<1>2. PICK e, p \in DOMAIN line :
        /\ e < p
        /\ \A k \in 1 .. p-1 : (line[k] = Space) <=> (k >= e)
        /\ w # <<>> /\ Space \notin ToSet(w)
        /\ IsPrefix(w, SubSeq(line, p, Len(line)))
        /\ p + Len(w) \in DOMAIN line => line[p + Len(w)] = Space
  BY <1>1 DEF IsArgument
<1>3. e \in 1 .. Len(line) /\ p \in 1 .. Len(line) /\ Len(w) \in Nat /\ Len(w) > 0
  BY <1>1, <1>2
<1>4. Len(w) <= Len(line) - p + 1 /\ \A k \in 1 .. Len(w) : w[k] = line[p + k - 1]
  <2> DEFINE tail == SubSeq(line, p, Len(line))
  <2>1. /\ tail \in Seq(Char) /\ Len(tail) = Len(line) - p + 1
        /\ \A k \in 1 .. Len(line) - p + 1 : tail[k] = line[p + k - 1]
    BY <1>0, <1>3
  <2>2. Len(w) <= Len(tail) /\ SubSeq(w, 1, Len(w)) = SubSeq(tail, 1, Len(w))
    BY <1>2 DEF IsPrefix
  <2> HIDE DEF tail
  <2>3. \A k \in 1 .. Len(w) : SubSeq(w, 1, Len(w))[k] = w[k] /\ SubSeq(tail, 1, Len(w))[k] = tail[k]
    BY <1>1, <1>3, <2>1, <2>2
  <2> QED BY <1>3, <2>1, <2>2, <2>3
<1>5. \A k \in 1 .. Len(w) : line[p + k - 1] # Space
  <2>1. \A k \in 1 .. Len(w) : w[k] \in ToSet(w)
    BY <1>1 DEF ToSet
  <2> QED BY <1>2, <1>4, <2>1
<1>6. \A k \in p .. p + Len(w) - 1 : line[k] # Space
  <2> SUFFICES ASSUME NEW k \in p .. p + Len(w) - 1
               PROVE  line[k] # Space
    OBVIOUS
  <2>1. k - p + 1 \in 1 .. Len(w) /\ p + (k - p + 1) - 1 = k
    BY <1>3
  <2> QED BY <1>5, <2>1
<1>7. WordEnd(line, 1) = e
  <2>1. 1 \in 1 .. Len(line) + 1 /\ e \in 1 .. Len(line) + 1
    BY <1>0, <1>3
  <2>2. (\A k \in 1 .. e - 1 : line[k] # Space) /\ (e <= Len(line) => line[e] = Space)
    BY <1>0, <1>2, <1>3
  <2> QED BY <2>1, <2>2, WordEndIs
<1>8. Min(Rest(line)) = p /\ Rest(line) # {}
  <2>1. Rest(line) = {k \in e .. Len(line) : line[k] # Space}
    BY <1>7 DEF Rest
  <2>2. Rest(line) \in SUBSET Nat
    BY <1>0, <1>3, <2>1
  <2>3. p \in Rest(line)
    <3>1. p \in p .. p + Len(w) - 1
      BY <1>3
    <3> QED BY <1>2, <1>3, <1>6, <2>1, <3>1
  <2>4. \A k \in Rest(line) : p <= k
    BY <1>0, <1>2, <1>3, <2>1
  <2> QED BY <2>2, <2>3, <2>4, MinIs
<1>9. WordEnd(line, p) = p + Len(w)
  <2>1. p \in 1 .. Len(line) + 1 /\ p + Len(w) \in p .. Len(line) + 1
    BY <1>0, <1>3, <1>4
  <2>2. p + Len(w) <= Len(line) => line[p + Len(w)] = Space
    BY <1>0, <1>2, <1>3
  <2>3. PICK n \in p .. Len(line) + 1 : n = p + Len(w)
    BY <2>1
  <2>4. (\A k \in p .. n - 1 : line[k] # Space) /\ (n <= Len(line) => line[n] = Space)
    BY <1>6, <2>2, <2>3
  <2>5. WordEnd(line, p) = n
    BY <2>1, <2>3, <2>4, WordEndIs
  <2> QED BY <2>3, <2>5
<1>10. SubSeq(line, p, p + Len(w) - 1) = w
  <2> DEFINE v == SubSeq(line, p, p + Len(w) - 1)
  <2>1. /\ v \in Seq(Char) /\ Len(v) = Len(w)
        /\ \A k \in 1 .. Len(w) : v[k] = line[p + k - 1]
    BY <1>0, <1>3, <1>4
  <2> HIDE DEF v
  <2>2. v = [k \in 1 .. Len(w) |-> v[k]] /\ w = [k \in 1 .. Len(w) |-> w[k]]
    BY <1>1, <2>1
  <2>3. \A k \in 1 .. Len(w) : v[k] = w[k]
    BY <1>4, <2>1
  <2>4. v = w
    BY <2>2, <2>3
  <2> QED BY <2>4 DEF v
<1> QED BY <1>8, <1>9, <1>10 DEF Argument

----------------------------------------------------------------------------
(***************************************************************************)
(* The inductive invariant: InputIntact with the types it speaks of, and   *)
(* SaidAsTyped, which follows from it at the end of each line.             *)
(***************************************************************************)
EditInv ==
  /\ user_input \in Buffer
  /\ typed \in Seq(Char)
  /\ InputIntact
  /\ SaidAsTyped

\* A prompt forgets the line and leaves a buffer behind.
LEMMA PromptStartsEmpty ==
  ASSUME NEW buf \in Buffer, Prompt(buf)
  PROVE  /\ user_input' \in Buffer /\ typed' \in Seq(Char)
         /\ InputIntact' /\ screen' = <<>> /\ typed' = <<>>
<1>1. user_input' \in Buffer
  <2>1. NUL \in Cell
    BY DEF Cell
  <2> QED BY <2>1 DEF Prompt, Buffer
<1>2. typed' = <<>> /\ count' = 0 /\ screen' = <<>>
  BY DEF Prompt
<1>3. InputIntact'
  BY <1>2, EditorAssumption DEF InputIntact
<1> QED BY <1>1, <1>2, <1>3

\* A line that is full or ended is sent as it was typed, if it is sent.
LEMMA EndLineKeepsInv ==
  ASSUME NEW buf \in Buffer, NEW line \in Seq(Char), CString(buf) = line,
         EndLine(buf, line)
  PROVE  EditInv' /\ screen' = <<>> /\ typed' = <<>>
<1>1. CString(buf) = line
  OBVIOUS
<1>2. PICK b \in Buffer : Prompt(b)
  <2>1. CutWords(buf, line) \in Buffer
    <3>1. NUL \in Cell
      BY DEF Cell
    <3> QED BY <3>1 DEF CutWords, Buffer
  <2>2. Prompt(buf) \/ Prompt(CutWords(buf, line))
    BY <1>1 DEF EndLine
  <2> QED BY <2>1, <2>2
<1>3. SaidAsTyped'
  <2>1. CASE ~IsCommand(line)
    <3>1. Say(line, line)
      BY <1>1, <2>1 DEF EndLine
    <3> QED BY <3>1 DEF Say, Did, Nothing, SaidAsTyped
  <2>2. CASE IsCommand(line)
    <3>1. Command(line, line, argument')
      BY <1>1, <2>2 DEF EndLine
    <3>2. done'.kind # "say"
      BY <3>1 DEF Command, Did, Nothing
    <3> QED BY <3>2 DEF SaidAsTyped
  <2> QED BY <2>1, <2>2
<1> QED BY <1>2, <1>3, PromptStartsEmpty DEF EditInv

LEMMA StartKeepsInv ==
  ASSUME EditInv, Start
  PROVE  EditInv' /\ screen' = <<>> /\ typed' = <<>>
<1>1. SaidAsTyped'
  BY DEF EditInv, Start, SaidAsTyped
<1>2. user_input \in Buffer /\ Prompt(user_input)
  BY DEF EditInv, Start
<1> QED BY <1>1, <1>2, PromptStartsEmpty DEF EditInv

\* The end of a line that the user typed: the buffer is read as that line.
LEMMA NewlineEnds ==
  ASSUME EditInv, TypeNewline
  PROVE  \E buf \in Buffer, line \in Seq(Char) :
           CString(buf) = line /\ EndLine(buf, line)
<1> DEFINE buf == Terminated(user_input, count)
<1>1. /\ user_input \in Buffer /\ typed \in Seq(Char)
      /\ count = Len(typed) /\ count \in Nat /\ count < USER_INPUT_MAX - 1
      /\ Holds(user_input, typed)
  BY DEF EditInv, InputIntact, Holds
<1>2. count \in Index /\ NUL \in Cell
  BY <1>1, EditorAssumption DEF Index, Cell
<1>3. buf \in Buffer /\ buf[count] = NUL
  BY <1>1, <1>2 DEF Terminated, Buffer
<1>4. Holds(buf, typed)
  BY <1>1, <1>2, EditorAssumption DEF Terminated, Buffer, Holds, Index
<1>5. EndLine(buf, typed)
  BY DEF TypeNewline
<1> HIDE DEF buf
<1>6. CString(buf) = typed
  BY <1>1, <1>3, <1>4, ReadBack, EditorAssumption
<1> QED BY <1>1, <1>3, <1>5, <1>6

\* A key that is stored, and the one that fills the line and so ends it.
LEMMA CharStoredOrEnds ==
  ASSUME EditInv, TypeChar
  PROVE  \/ \E buf \in Buffer, line \in Seq(Char) :
              CString(buf) = line /\ EndLine(buf, line)
         \/ EditInv' /\ typed' # typed /\ typed' # <<>> /\ done' = Nothing
<1>1. /\ user_input \in Buffer /\ typed \in Seq(Char)
      /\ count = Len(typed) /\ count \in Nat /\ count < USER_INPUT_MAX - 1
      /\ Holds(user_input, typed)
  BY DEF EditInv, InputIntact, Holds
<1>2. PICK ch \in Char :
        LET buf == [user_input EXCEPT ![count] = ch] IN
        \/ /\ Full(count + 1)
           /\ EndLine(Terminated(buf, count + 1), Append(typed, ch))
        \/ /\ ~Full(count + 1)
           /\ user_input' = buf
           /\ count' = count + 1
           /\ typed' = Append(typed, ch)
           /\ done' = Nothing
  BY DEF TypeChar
<1> DEFINE buf == [user_input EXCEPT ![count] = ch]
           line == Append(typed, ch)
<1>3. count \in Index /\ count + 1 \in Index /\ NUL \in Cell /\ ch \in Cell
  BY <1>1, EditorAssumption DEF Index, Cell
<1>4. buf \in Buffer
  BY <1>1, <1>3 DEF Buffer
<1>5. line \in Seq(Char) /\ Len(line) = count + 1
  BY <1>1
<1>6. Holds(buf, line)
  <2> SUFFICES ASSUME NEW k \in DOMAIN line PROVE buf[k-1] = line[k]
    BY DEF Holds
  <2>1. CASE k = count + 1
    BY <2>1, <1>1, <1>3 DEF Buffer
  <2>2. CASE k # count + 1
    <3>1. k \in DOMAIN typed /\ line[k] = typed[k] /\ k - 1 # count
      BY <2>2, <1>1, <1>5
    <3> QED BY <3>1, <1>1, <1>3 DEF Holds, Buffer
  <2> QED BY <2>1, <2>2
<1>7. CASE Full(count + 1)
  <2> DEFINE end == Terminated(buf, count + 1)
  <2>1. EndLine(end, line)
    BY <1>2, <1>7, EditorAssumption DEF Full
  <2>2. end \in Buffer /\ end[count + 1] = NUL
    BY <1>3, <1>4 DEF Terminated, Buffer
  <2>3. Holds(end, line)
    <3> HIDE DEF buf
    <3>1. \A k \in DOMAIN line : k - 1 # count + 1
      BY <1>1, <1>5
    <3> QED BY <1>3, <1>4, <1>5, <1>6, <3>1 DEF Terminated, Buffer, Holds
  <2>4. Len(line) < USER_INPUT_MAX
    BY <1>1, <1>5, EditorAssumption
  <2> HIDE DEF end, line
  <2>5. CString(end) = line
    BY <1>5, <2>2, <2>3, <2>4, ReadBack
  <2> QED BY <1>5, <2>1, <2>2, <2>5
<1>8. CASE ~Full(count + 1)
  <2>1. user_input' = buf /\ count' = count + 1 /\ typed' = line /\ done' = Nothing
    BY <1>2, <1>8
  <2>2. count + 1 < USER_INPUT_MAX - 1
    BY <1>1, <1>8, EditorAssumption DEF Full
  <2>3. InputIntact'
    <3> HIDE DEF buf, line
    <3> QED BY <1>5, <1>6, <2>1, <2>2 DEF InputIntact, Holds
  <2>4. SaidAsTyped'
    BY <2>1 DEF SaidAsTyped, Nothing
  <2>5. typed' # typed /\ typed' # <<>>
    <3> HIDE DEF line
    <3> QED BY <1>1, <1>5, <2>1
  <2> QED BY <1>1, <1>4, <1>5, <2>1, <2>3, <2>4, <2>5 DEF EditInv
<1> QED BY <1>7, <1>8

LEMMA NewlineKeepsInv ==
  ASSUME EditInv, TypeNewline
  PROVE  EditInv' /\ screen' = <<>> /\ typed' = <<>>
BY NewlineEnds, EndLineKeepsInv

LEMMA CharKeepsInv ==
  ASSUME EditInv, TypeChar
  PROVE  EditInv' /\ (typed' # typed \/ (screen' = <<>> /\ typed' = <<>>))
BY CharStoredOrEnds, EndLineKeepsInv

LEMMA BackspaceKeepsInv ==
  ASSUME EditInv, TypeBackspace
  PROVE  EditInv' /\ typed' # typed
<1>1. /\ user_input \in Buffer /\ typed \in Seq(Char)
      /\ count = Len(typed) /\ count \in Nat /\ count < USER_INPUT_MAX - 1
      /\ Holds(user_input, typed)
  BY DEF EditInv, InputIntact, Holds
<1>2. /\ count # 0 /\ count' = count - 1 /\ done' = Nothing
      /\ user_input' = [user_input EXCEPT ![count - 1] = NUL]
      /\ typed' = SubSeq(typed, 1, Len(typed) - 1)
  BY DEF TypeBackspace, Front
<1>3. typed' \in Seq(Char) /\ Len(typed') = count - 1 /\ \A k \in 1 .. count - 1 : typed'[k] = typed[k]
  BY <1>1, <1>2
<1>4. user_input' \in Buffer
  BY <1>1, <1>2 DEF Buffer, Cell
<1>5. \A k \in 1 .. count - 1 : user_input'[k-1] = user_input[k-1]
  BY <1>1, <1>2, EditorAssumption DEF Buffer, Index
<1>6. InputIntact'
  BY <1>1, <1>2, <1>3, <1>5, EditorAssumption DEF InputIntact, Holds
<1>7. SaidAsTyped'
  BY <1>2 DEF SaidAsTyped, Nothing
<1> QED BY <1>1, <1>2, <1>3, <1>4, <1>6, <1>7 DEF EditInv

LEMMA RecvKeepsInv ==
  ASSUME EditInv, RecvText
  PROVE  EditInv' /\ IsPrefix(typed, screen')
<1>1. UNCHANGED <<user_input, count, typed>> /\ done' = Nothing /\ screen' = CString(user_input)
  BY DEF RecvText
<1>2. EditInv'
  BY <1>1 DEF EditInv, InputIntact, SaidAsTyped, Nothing
<1>3. /\ user_input \in Buffer /\ typed \in Seq(Char) /\ Holds(user_input, typed)
      /\ Len(typed) < USER_INPUT_MAX
  BY EditorAssumption DEF EditInv, InputIntact, Holds
<1> QED BY <1>1, <1>2, <1>3, ReadsAtLeast

\* Every step keeps the invariant, and shows what was typed when it shows the
\* line again.
LEMMA StepKeepsInv ==
  ASSUME EditInv, [Next]_vars
  PROVE  /\ EditInv'
         /\ UNCHANGED typed /\ screen' # screen => IsPrefix(typed, screen')
<1>1. IsPrefix(<<>>, <<>>)
  BY DEF IsPrefix
<1>2. CASE Start
  BY <1>1, <1>2, StartKeepsInv
<1>3. CASE TypeNewline
  BY <1>1, <1>3, NewlineKeepsInv
<1>4. CASE TypeChar
  BY <1>1, <1>4, CharKeepsInv
<1>5. CASE TypeBackspace
  BY <1>5, BackspaceKeepsInv
<1>6. CASE RecvText
  BY <1>6, RecvKeepsInv
<1>7. CASE UNCHANGED vars
  BY <1>7 DEF vars, EditInv, InputIntact, SaidAsTyped
<1> QED BY <1>2, <1>3, <1>4, <1>5, <1>6, <1>7 DEF Next

LEMMA EditStarts ==
  ASSUME Init PROVE EditInv
<1>1. user_input \in Buffer
  BY EditorAssumption DEF Init, Buffer
<1>2. typed = <<>> /\ count = 0 /\ done = Nothing
  BY DEF Init
<1>3. InputIntact /\ SaidAsTyped
  BY <1>2, EditorAssumption DEF InputIntact, SaidAsTyped, Nothing
<1> QED BY <1>1, <1>2, <1>3 DEF EditInv

----------------------------------------------------------------------------
\* prompt_user never writes outside user_input, and the buffer holds the line
\* the user means, whatever he typed and erased.
THEOREM InputIntactCorrect == Spec => []InputIntact
<1>1. Init => EditInv
  BY EditStarts
<1>2. EditInv /\ [Next]_vars => EditInv'
  BY StepKeepsInv
<1>3. EditInv => InputIntact
  BY DEF EditInv
<1> QED BY <1>1, <1>2, <1>3, PTL DEF Spec

\* say_command sends a line as it was typed, whatever user_input held before.
THEOREM SaidAsTypedCorrect == Spec => []SaidAsTyped
<1>1. Init => EditInv
  BY EditStarts
<1>2. EditInv /\ [Next]_vars => EditInv'
  BY StepKeepsInv
<1>3. EditInv => SaidAsTyped
  BY DEF EditInv
<1> QED BY <1>1, <1>2, <1>3, PTL DEF Spec

\* What is shown after an interruption starts with what was typed.
THEOREM RedisplayCorrect == Spec => RedisplayShowsInput
<1>1. Init => EditInv
  BY EditStarts
<1>2. EditInv /\ [Next]_vars => EditInv'
  BY StepKeepsInv
<1>3. EditInv /\ [Next]_vars =>
        [UNCHANGED typed /\ screen' # screen => IsPrefix(typed, screen')]_vars
  BY StepKeepsInv
<1> QED BY <1>1, <1>2, <1>3, PTL DEF Spec, RedisplayShowsInput
----------------------------------------------------------------------------
(***************************************************************************)
(* The whole invariant: what the parser hands over is what the user gave,  *)
(* and how the program ended says in which mode it left the terminal.      *)
(***************************************************************************)
ParseInv ==
  /\ EditInv
  /\ TypeOK
  /\ argument = given
  /\ ArgumentsTraced
  /\ phase = "starting" => done.kind = "nothing"
  /\ TerminalRestored

\* What a step may leave behind, apart from the buffer and its line.
Sound ==
  /\ phase \in {"prompt", "ended"}
  /\ tty \in {"raw", "cooked"}
  /\ {argument, given, active} \subseteq Name
  /\ done \in Deed
  /\ argument = given
  /\ ArgumentsTraced
  /\ TerminalRestored

LEMMA NothingIsDeed == Nothing \in Deed
BY DEF Nothing, Deed, Kind, Name

\* string_parser: parsed_s[1] becomes the argument of the line, if it has one.
LEMMA ParserTakesArgument ==
  ASSUME NEW line \in Seq(Char), argument = given, argument \in Name,
         argument' = IF Rest(line) = {} THEN argument ELSE Argument(line),
         given' = IF GivenBy(line) = {} THEN given ELSE CHOOSE w \in GivenBy(line) : TRUE
  PROVE  /\ argument' = given' /\ argument' \in Name
         /\ Rest(line) # {} => argument' \in GivenBy(line)
<1>1. CASE Rest(line) = {}
  <2>1. GivenBy(line) = {}
    BY <1>1, GivenIsArgument
  <2> QED BY <1>1, <2>1
<1>2. CASE Rest(line) # {}
  <2>1. Argument(line) \in GivenBy(line) /\ Argument(line) \in Seq(Char)
    BY <1>2, ArgumentIsGiven
  <2>2. (CHOOSE w \in GivenBy(line) : TRUE) = Argument(line)
    <3>1. (CHOOSE w \in GivenBy(line) : TRUE) \in GivenBy(line)
      BY <2>1
    <3> QED BY <3>1, GivenIsArgument
  <2>3. argument' = Argument(line) /\ given' = Argument(line)
    BY <1>2, <2>1, <2>2
  <2> QED BY <2>1, <2>3 DEF Name
<1> QED BY <1>1, <1>2

\* main() acts on the line it was given.
LEMMA CommandIsSound ==
  ASSUME NEW line \in Seq(Char), phase = "prompt", tty \in {"raw", "cooked"}, active \in Name,
         argument' = given', argument' \in Name,
         Rest(line) # {} => argument' \in GivenBy(line),
         Command(line, line, argument')
  PROVE  Sound'
<1> DEFINE arg == argument'
           kinds == {"exit", "join", "leave", "list", "who", "switch"}
<1>1. /\ phase' \in {"prompt", "ended"} /\ tty' \in {"raw", "cooked"}
      /\ active' \in Name
  BY DEF Command, Stay, Request, Name
<1>2. done' = Nothing \/ \E kind \in kinds : done' = [kind |-> kind, line |-> line, with |-> arg]
  BY DEF Command, Did
<1>3. done' \in Deed
  BY <1>2, NothingIsDeed DEF Deed, Kind
<1>4. done'.kind \in {"join", "leave"} => Rest(line) # {}
  BY DEF Command, Did, Nothing
<1>5. ArgumentsTraced'
  <2>1. CASE done' = Nothing
    BY <2>1 DEF ArgumentsTraced, Nothing
  <2>2. CASE \E kind \in kinds : done' = [kind |-> kind, line |-> line, with |-> arg]
    <3>1. done'.line = line /\ done'.with = arg
      BY <2>2
    <3> QED BY <1>4, <3>1 DEF ArgumentsTraced
  <2> QED BY <1>2, <2>1, <2>2
<1>6. TerminalRestored'
  <2>1. phase' = "ended" /\ tty' = "raw" => done'.kind \in {"join", "leave"}
    BY DEF Command, Stay, Request, Did
  <2> QED BY <2>1 DEF TerminalRestored
<1> QED BY <1>1, <1>3, <1>5, <1>6 DEF Sound

LEMMA SayIsSound ==
  ASSUME NEW line \in Seq(Char), phase = "prompt", tty \in {"raw", "cooked"},
         {argument, given, active} \subseteq Name, argument = given,
         UNCHANGED <<argument, active, given>>, Say(line, line)
  PROVE  Sound'
<1>1. phase' \in {"prompt", "ended"} /\ tty' \in {"raw", "cooked"}
  BY DEF Say, Stay, Request
<1>2. done' = Nothing \/ done' = [kind |-> "say", line |-> line, with |-> line]
  BY DEF Say, Did
<1>3. done' \in Deed
  BY <1>2, NothingIsDeed DEF Deed, Kind, Name
<1>4. done'.kind \in {"nothing", "say"}
  BY <1>2 DEF Nothing
<1> QED BY <1>1, <1>3, <1>4 DEF Sound, ArgumentsTraced, TerminalRestored

\* The end of a line keeps everything.
LEMMA EndLineSound ==
  ASSUME ParseInv, phase = "prompt",
         NEW buf \in Buffer, NEW line \in Seq(Char), CString(buf) = line, EndLine(buf, line)
  PROVE  ParseInv'
<1>1. /\ tty \in {"raw", "cooked"} /\ {argument, given, active} \subseteq Name
      /\ argument = given
  BY DEF ParseInv, TypeOK
<1>2. Sound'
  <2>1. CASE ~IsCommand(line)
    <3>1. Say(line, line) /\ UNCHANGED <<argument, active, given>>
      BY <2>1 DEF EndLine
    <3> QED BY <1>1, <3>1, SayIsSound
  <2>2. CASE IsCommand(line)
    <3>1. /\ argument' = IF Rest(line) = {} THEN argument ELSE Argument(line)
          /\ given' = IF GivenBy(line) = {} THEN given ELSE CHOOSE w \in GivenBy(line) : TRUE
          /\ Command(line, line, argument')
      BY <2>2 DEF EndLine
    <3>2. /\ argument' = given' /\ argument' \in Name
          /\ Rest(line) # {} => argument' \in GivenBy(line)
      BY <1>1, <3>1, ParserTakesArgument
    <3> QED BY <1>1, <3>1, <3>2, CommandIsSound
  <2> QED BY <2>1, <2>2
<1>3. EditInv' /\ screen' = <<>> /\ typed' = <<>>
  BY EndLineKeepsInv
<1>4. count' = 0
  BY DEF EndLine, Prompt
<1>5. TypeOK'
  BY <1>2, <1>3, <1>4, EditorAssumption DEF Sound, TypeOK, EditInv, Buffer, Index
<1> QED BY <1>2, <1>3, <1>5 DEF ParseInv, Sound

\* A step that does nothing but change the line, or what is shown of it.
LEMMA EditingSound ==
  ASSUME ParseInv, phase = "prompt", UNCHANGED <<phase, tty, argument, active, given>>,
         done' = Nothing, EditInv', screen' \in Seq(Cell)
  PROVE  ParseInv'
<1>1. done'.kind = "nothing" /\ done' \in Deed
  BY NothingIsDeed DEF Nothing
<1>2. ArgumentsTraced' /\ TerminalRestored'
  BY <1>1 DEF ArgumentsTraced, TerminalRestored
<1>3. count' \in Index
  <2>1. typed' \in Seq(Char) /\ count' = Len(typed') /\ count' < USER_INPUT_MAX - 1
    BY DEF EditInv, InputIntact
  <2> QED BY <2>1, EditorAssumption DEF Index
<1>4. TypeOK'
  BY <1>1, <1>3 DEF ParseInv, TypeOK, EditInv, Buffer
<1> QED BY <1>1, <1>2, <1>4 DEF ParseInv

LEMMA ParseStep ==
  ASSUME ParseInv, [Next]_vars
  PROVE  ParseInv'
<1>0. EditInv /\ EditInv' /\ user_input \in Buffer /\ screen \in Seq(Cell)
  BY StepKeepsInv DEF ParseInv, EditInv, TypeOK
<1>1. CASE Start
  <2>1. /\ phase' \in {"prompt", "ended"} /\ tty' = "raw" /\ active' \in {active, Common}
        /\ UNCHANGED <<argument, given, done>> /\ done.kind = "nothing"
    BY <1>1 DEF Start, ParseInv
  <2>2. count' = 0 /\ typed' = <<>> /\ screen' = <<>>
    BY <1>1 DEF Start, Prompt
  <2>3. TypeOK'
    BY <1>0, <2>1, <2>2, EditorAssumption DEF ParseInv, TypeOK, EditInv, Buffer, Name, Index
  <2>4. ArgumentsTraced' /\ TerminalRestored'
    BY <2>1 DEF ArgumentsTraced, TerminalRestored
  <2> QED BY <1>0, <2>1, <2>3, <2>4 DEF ParseInv
<1>2. CASE TypeNewline
  <2>1. phase = "prompt"
    BY <1>2 DEF TypeNewline
  <2> QED BY <1>0, <1>2, <2>1, NewlineEnds, EndLineSound
<1>3. CASE TypeChar
  <2>1. phase = "prompt"
    BY <1>3 DEF TypeChar
  <2>2. CASE \E buf \in Buffer, line \in Seq(Char) : CString(buf) = line /\ EndLine(buf, line)
    BY <2>1, <2>2, EndLineSound
  <2>3. CASE ~ \E buf \in Buffer, line \in Seq(Char) : CString(buf) = line /\ EndLine(buf, line)
    <3>1. done' = Nothing /\ typed' # typed /\ typed' # <<>>
      BY <1>0, <1>3, <2>3, CharStoredOrEnds
    <3>2. screen' \in Seq(Cell) /\ UNCHANGED <<phase, tty, argument, active, given>>
      BY <1>0, <1>3, <3>1 DEF TypeChar, EndLine, Prompt, Cell
    <3> QED BY <1>0, <2>1, <3>1, <3>2, EditingSound
  <2> QED BY <2>2, <2>3
<1>4. CASE TypeBackspace
  <2>1. /\ phase = "prompt" /\ done' = Nothing
        /\ screen' = Front(screen) /\ UNCHANGED <<phase, tty, argument, active, given>>
    BY <1>4 DEF TypeBackspace
  <2>2. screen' \in Seq(Cell)
    BY <1>0, <2>1 DEF Front
  <2> QED BY <1>0, <2>1, <2>2, EditingSound
<1>5. CASE RecvText
  <2>1. /\ phase = "prompt" /\ done' = Nothing
        /\ screen' = CString(user_input) /\ UNCHANGED <<phase, tty, argument, active, given>>
    BY <1>5 DEF RecvText
  <2>2. screen' \in Seq(Cell)
    BY <1>0, <2>1, ReadCells
  <2> QED BY <1>0, <2>1, <2>2, EditingSound
<1>6. CASE UNCHANGED vars
  BY <1>6 DEF vars, ParseInv, EditInv, InputIntact, SaidAsTyped, TypeOK, ArgumentsTraced,
      TerminalRestored
<1> QED BY <1>1, <1>2, <1>3, <1>4, <1>5, <1>6 DEF Next

LEMMA ParseStarts ==
  ASSUME Init PROVE ParseInv
<1>1. EditInv
  BY EditStarts
<1>2. /\ phase = "starting" /\ tty = "cooked" /\ count = 0 /\ screen = <<>>
      /\ argument = Junk /\ active = NoChannel /\ given = Junk /\ done = Nothing
  BY DEF Init
<1>3. done.kind = "nothing" /\ done \in Deed
  BY <1>2, NothingIsDeed DEF Nothing
<1>4. TypeOK
  BY <1>1, <1>2, <1>3, EditorAssumption DEF EditInv, TypeOK, Buffer, Name, Index
<1>5. ArgumentsTraced /\ TerminalRestored
  BY <1>2, <1>3 DEF ArgumentsTraced, TerminalRestored
<1> QED BY <1>1, <1>2, <1>3, <1>4, <1>5 DEF ParseInv

LEMMA ParseInvariant == Spec => []ParseInv
<1>1. Init => ParseInv
  BY ParseStarts
<1>2. ParseInv /\ [Next]_vars => ParseInv'
  BY ParseStep
<1> QED BY <1>1, <1>2, PTL DEF Spec

\* The buffer, the parsed words, the screen and the requests are of their types.
THEOREM EditorTypeCorrect == Spec => []TypeOK
<1>1. ParseInv => TypeOK
  BY DEF ParseInv
<1> QED BY <1>1, ParseInvariant, PTL

\* string_parser hands over the argument the user gave with this line, or the
\* last one he gave; /join and /leave only ever act on one of their own line.
THEOREM ArgumentsTracedCorrect == Spec => []ArgumentsTraced
<1>1. ParseInv => ArgumentsTraced
  BY DEF ParseInv
<1> QED BY <1>1, ParseInvariant, PTL

\* Only a failing login, join, leave or say leaves the terminal raw.
THEOREM TerminalRestoredCorrect == Spec => []TerminalRestored
<1>1. ParseInv => TerminalRestored
  BY DEF ParseInv
<1> QED BY <1>1, ParseInvariant, PTL
============================================================================
