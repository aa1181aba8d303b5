-------------------------- MODULE RunDirectoryProofs --------------------------
(***************************************************************************)
(* That a parent reading a journal as it grows has read what is in it,     *)
(* that a journal cut short reads back, that a checkpoint's steps are told *)
(* by a line, and that a child's last line is true: for any number of runs *)
(* in the directory and of steps, wherever a child is killed.              *)
(***************************************************************************)
EXTENDS RunDirectory, SequenceTheorems, WellFoundedInduction, TLAPS

-----------------------------------------------------------------------------
(* Sets of positions, and the greatest of them. *)

LEMMA LeastOf ==
    ASSUME NEW S \in SUBSET Nat, S # {}
    PROVE  \E j \in S : \A i \in S : j <= i
  <1> DEFINE R == OpToRel(<, Nat)
  <1>1. IsWellFoundedOn(R, Nat)
    BY NatLessThanWellFounded
  <1>2. \A x, y \in S : y < x => <<y, x>> \in R
    BY DEF OpToRel
  <1> HIDE DEF R
  <1>3. PICK j \in S : \A y \in S : ~ (<<y, j>> \in R)
    BY <1>1, WFMin
  <1>4. \A i \in S : ~ (i < j)
    BY <1>2, <1>3
  <1> QED  BY <1>4

(* A set of positions that is not empty has a greatest one: the least of   *)
(* its bounds.                                                             *)
LEMMA GreatestOf ==
    ASSUME NEW n \in Nat, NEW S \in SUBSET (1..n), S # {}
    PROVE  Max(S) \in S /\ \A y \in S : Max(S) >= y
  <1> DEFINE Bounds == {u \in Nat : \A y \in S : y <= u}
  <1>1. n \in Bounds
    OBVIOUS
  <1>2. PICK m \in Bounds : \A u \in Bounds : m <= u
    BY <1>1, LeastOf
  <1>3. m \in S
    <2> SUFFICES ASSUME m \notin S
                 PROVE  FALSE
      OBVIOUS
    <2>0. \A y \in S : y \in Nat /\ y <= m /\ y # m
      OBVIOUS
    <2>1. \A y \in S : y <= m - 1
      BY <2>0
    <2>2. PICK y \in S : TRUE
      OBVIOUS
    <2>3. m \in Nat /\ y \in Nat /\ y >= 1 /\ y <= m - 1
      BY <2>1, <2>2
    <2>4. m - 1 \in Nat
      BY <2>3
    <2>5. m - 1 \in Bounds
      BY <2>1, <2>4
    <2>6. m <= m - 1
      BY <1>2, <2>5
    <2> QED  BY <2>3, <2>6
  <1>4. \E x \in S : \A y \in S : x >= y
    BY <1>3
  <1> QED  BY <1>4 DEF Max

LEMMA GreatestIs ==
    ASSUME NEW n \in Nat, NEW S \in SUBSET (1..n), NEW m \in S, \A y \in S : m >= y
    PROVE  Max(S) = m
  <1>1. Max(S) \in S /\ \A y \in S : Max(S) >= y
    BY GreatestOf
  <1>2. \A y \in S : y \in Nat
    OBVIOUS
  <1>3. Max(S) \in S /\ Max(S) >= m /\ m >= Max(S)
    BY <1>1
  <1>4. Max(S) \in Nat /\ m \in Nat
    BY <1>2, <1>3
  <1> HIDE DEF Max
  <1> QED  BY <1>3, <1>4

-----------------------------------------------------------------------------
(* Texts. *)

Pieces == [part : {"text", "newline"}, of : Entries]
Texts  == Seq(Pieces)

(* Every newline comes behind the text it ends. *)
Formed(text) ==
    \A k \in 1..Len(text) :
        text[k].part = "newline" => k > 1 /\ text[k - 1] = [part |-> "text", of |-> text[k].of]

(* The next piece begins a line of its own. *)
Ended(text) == Len(text) > 0 /\ text[Len(text)].part = "newline"

(* What LastOf looks for. *)
Usable(text, kind) == {k \in Ends(text) : Parses(text, k) /\ text[k].of.kind = kind}

(* The text read again after its first n pieces. *)
Beyond(text, n) == SubSeq(text, n + 1, Len(text))
Upto(text, n)   == SubSeq(text, 1, n)

LEMMA PieceFacts ==
    ASSUME NEW text \in Texts, NEW k \in 1..Len(text)
    PROVE  text[k].part \in {"text", "newline"} /\ text[k].of \in Entries
  <1>1. text[k] \in Pieces
    BY DEF Texts
  <1> QED  BY <1>1 DEF Pieces

LEMMA UptoFacts ==
    ASSUME NEW text \in Texts, NEW n \in 0..Len(text)
    PROVE  /\ Upto(text, n) \in Texts /\ Len(Upto(text, n)) = n
           /\ \A k \in 1..n : Upto(text, n)[k] = text[k]
  BY SubSeqProperties DEF Texts, Upto

LEMMA BeyondFacts ==
    ASSUME NEW text \in Texts, NEW n \in 0..Len(text)
    PROVE  /\ Beyond(text, n) \in Texts /\ Len(Beyond(text, n)) = Len(text) - n
           /\ \A k \in 1..(Len(text) - n) : Beyond(text, n)[k] = text[n + k]
  BY SubSeqProperties DEF Texts, Beyond

LEMMA EndOfLinesFacts ==
    ASSUME NEW text \in Texts
    PROVE  /\ EndOfLines(text) \in 0..Len(text)
           /\ EndOfLines(text) > 0 => text[EndOfLines(text)].part = "newline"
           /\ \A k \in 1..Len(text) : text[k].part = "newline" => k <= EndOfLines(text)
  <1>1. Len(text) \in Nat /\ DOMAIN text = 1..Len(text)
    BY DEF Texts
  <1>2. Ends(text) \in SUBSET (1..Len(text))
    BY <1>1 DEF Ends
  <1>3. CASE Ends(text) = {}
    BY <1>1, <1>3 DEF EndOfLines, Ends
  <1>4. CASE Ends(text) # {}
    <2>1. /\ Max(Ends(text)) \in Ends(text) /\ \A y \in Ends(text) : Max(Ends(text)) >= y
      BY <1>1, <1>2, <1>4, GreatestOf
    <2> QED  BY <1>1, <1>2, <1>4, <2>1 DEF EndOfLines, Ends
  <1> QED  BY <1>3, <1>4

LEMMA EndOfLinesIs ==
    ASSUME NEW text \in Texts, NEW e \in 0..Len(text),
           e > 0 => text[e].part = "newline",
           \A k \in 1..Len(text) : text[k].part = "newline" => k <= e
    PROVE  EndOfLines(text) = e
  BY EndOfLinesFacts

(* The tail a reader holds, and what was appended since, are the text from *)
(* the end of the last line it read.                                       *)
LEMMA HeldTail ==
    ASSUME NEW text \in Texts, NEW o \in 0..Len(text),
           NEW e, e = EndOfLines(Upto(text, o))
    PROVE  /\ e \in 0..o
           /\ TailOf(Upto(text, o)) \o Beyond(text, o) = Beyond(text, e)
           /\ Len(TailOf(Upto(text, o))) = o - e
  <1> DEFINE seen == Upto(text, o)
  <1>1. seen \in Texts /\ Len(seen) = o /\ \A k \in 1..o : seen[k] = text[k]
    BY UptoFacts
  <1>2. e \in 0..o
    BY <1>1, EndOfLinesFacts
  <1>3. TailOf(seen) = Beyond(seen, e)
    BY <1>1 DEF TailOf, Beyond
  <1>4. /\ Beyond(seen, e) \in Texts /\ Len(Beyond(seen, e)) = o - e
        /\ \A k \in 1..(o - e) : Beyond(seen, e)[k] = seen[e + k]
    <2>1. e \in 0..Len(seen)
      BY <1>1, <1>2
    <2>2. seen \in Texts
      BY <1>1
    <2> HIDE DEF seen
    <2>3. /\ Beyond(seen, e) \in Texts /\ Len(Beyond(seen, e)) = Len(seen) - e
          /\ \A k \in 1..(Len(seen) - e) : Beyond(seen, e)[k] = seen[e + k]
      BY <2>1, <2>2, BeyondFacts
    <2>4. Len(seen) = o
      BY <1>1
    <2> QED  BY <2>3, <2>4
  <1>5. /\ Beyond(text, o) \in Texts /\ Len(Beyond(text, o)) = Len(text) - o
        /\ \A k \in 1..(Len(text) - o) : Beyond(text, o)[k] = text[o + k]
    BY BeyondFacts
  <1>6. /\ Beyond(text, e) \in Texts /\ Len(Beyond(text, e)) = Len(text) - e
        /\ \A k \in 1..(Len(text) - e) : Beyond(text, e)[k] = text[e + k]
    <2>1. e \in 0..Len(text)
      BY <1>2 DEF Texts
    <2> QED  BY <2>1, BeyondFacts
  <1> DEFINE held == Beyond(seen, e)  more == Beyond(text, o)  all == held \o more
  <1>7. /\ all \in Texts /\ Len(all) = Len(held) + Len(more)
        /\ \A i \in 1..Len(all) : all[i] = IF i <= Len(held) THEN held[i] ELSE more[i - Len(held)]
    <2>1. held \in Seq(Pieces) /\ more \in Seq(Pieces)
      BY <1>4, <1>5 DEF Texts
    <2> HIDE DEF held, more
    <2> QED  BY <2>1, ConcatProperties DEF Texts
  <1>8. Len(all) = Len(text) - e
    BY <1>2, <1>4, <1>5, <1>7 DEF Texts
  <1>9. ASSUME NEW i \in 1..Len(all)
        PROVE  all[i] = Beyond(text, e)[i]
    <2>1. Len(text) \in Nat
      BY DEF Texts
    <2>2. CASE i <= o - e
      <3>1. all[i] = held[i] /\ held[i] = seen[e + i] /\ e + i \in 1..o
        BY <1>2, <1>4, <1>7, <1>8, <2>1, <2>2
      <3> HIDE DEF all, held, more, seen
      <3> QED  BY <1>1, <1>2, <1>6, <1>8, <2>1, <2>2, <3>1
    <2>3. CASE i > o - e
      <3> HIDE DEF all, held, more, seen
      <3>0. i \in Nat /\ i <= Len(text) - e /\ ~ (i <= Len(held)) /\ o - e = Len(held)
        BY <1>2, <1>4, <1>8, <2>1, <2>3 DEF held
      <3>1. all[i] = more[i - (o - e)]
        BY <1>7, <3>0
      <3>1a. i - (o - e) \in 1..(Len(text) - o)
        BY <1>2, <2>1, <2>3, <3>0
      <3>2. o + (i - (o - e)) = e + i
        BY <1>2, <3>0
      <3>2a. more[i - (o - e)] = text[o + (i - (o - e))]
        BY <1>5, <3>1a DEF more
      <3>3. Beyond(text, e)[i] = text[e + i]
        BY <1>2, <1>6, <2>1, <3>0
      <3> QED  BY <3>1, <3>2, <3>2a, <3>3
    <2>4. i \in Nat
      OBVIOUS
    <2> HIDE DEF all
    <2> QED  BY <1>2, <2>1, <2>2, <2>3, <2>4
  <1>10. all = Beyond(text, e)
    <2> HIDE DEF all
    <2> QED  BY <1>6, <1>7, <1>8, <1>9, SeqEqual DEF Texts
  <1> QED  BY <1>2, <1>3, <1>4, <1>10

LEMMA UsableFacts ==
    ASSUME NEW text \in Texts, NEW kind
    PROVE  /\ Usable(text, kind) \in SUBSET (1..Len(text))
           /\ \A k : k \in Usable(text, kind) <=>
                 /\ k \in 1..Len(text) /\ text[k].part = "newline" /\ k > 1
                 /\ k > 2 => text[k - 2].part = "newline"
                 /\ text[k].of.kind = kind
  <1>1. DOMAIN text = 1..Len(text)
    BY DEF Texts
  <1> QED  BY <1>1 DEF Usable, Ends, Parses

LEMMA LastOfIs ==
    ASSUME NEW text \in Texts, NEW kind, NEW before, NEW m \in Usable(text, kind),
           \A y \in Usable(text, kind) : m >= y
    PROVE  LastOf(text, kind, before) = text[m].of
  <1>1. Usable(text, kind) \in SUBSET (1..Len(text)) /\ Len(text) \in Nat
    BY UsableFacts DEF Texts
  <1>2. Max(Usable(text, kind)) = m
    BY <1>1, GreatestIs
  <1> QED  BY <1>2 DEF LastOf, Usable

LEMMA LastOfNone ==
    ASSUME NEW text, NEW kind, NEW before, Usable(text, kind) = {}
    PROVE  LastOf(text, kind, before) = before
  BY DEF LastOf, Usable

(* The end of the last line in what is read again, and the tail behind it. *)
LEMMA TailAgain ==
    ASSUME NEW text \in Texts, NEW e \in 0..Len(text),
           e > 0 => text[e].part = "newline"
    PROVE  TailOf(Beyond(text, e)) = TailOf(text)
  <1> DEFINE rest == Beyond(text, e)  n == Len(text)  f == EndOfLines(text)
  <1>1. rest \in Texts /\ Len(rest) = n - e /\ \A k \in 1..(n - e) : rest[k] = text[e + k]
    BY BeyondFacts
  <1>2. /\ f \in 0..n /\ (f > 0 => text[f].part = "newline")
        /\ \A k \in 1..n : text[k].part = "newline" => k <= f
    BY EndOfLinesFacts
  <1> HIDE DEF f
  <1>3. n \in Nat /\ f \in Nat /\ e \in Nat /\ e <= n /\ f <= n /\ e <= f
    BY <1>2 DEF Texts
  <1>4. f - e \in 0..Len(rest)
    BY <1>1, <1>3
  <1>5. f - e > 0 => rest[f - e].part = "newline"
    <2> SUFFICES ASSUME f - e > 0
                 PROVE  rest[f - e].part = "newline"
      OBVIOUS
    <2>1. f - e \in 1..(n - e) /\ e + (f - e) = f /\ f > 0
      BY <1>3
    <2>2. rest[f - e] = text[e + (f - e)]
      BY <1>1, <2>1
    <2> QED  BY <1>2, <2>1, <2>2
  <1>6. ASSUME NEW k \in 1..Len(rest), rest[k].part = "newline"
        PROVE  k <= f - e
    <2>1. k \in 1..(n - e) /\ e + k \in 1..n
      BY <1>1, <1>3
    <2>2. e + k <= f
      BY <1>1, <1>2, <1>6, <2>1
    <2> QED  BY <1>3, <2>1, <2>2
  <1>7. EndOfLines(rest) = f - e
    BY <1>1, <1>4, <1>5, <1>6, EndOfLinesIs
  <1>8. TailOf(rest) = Beyond(rest, f - e) /\ TailOf(text) = Beyond(text, f)
    BY <1>7 DEF TailOf, Beyond, f
  <1>9. /\ Beyond(rest, f - e) \in Texts /\ Len(Beyond(rest, f - e)) = Len(rest) - (f - e)
        /\ \A k \in 1..(Len(rest) - (f - e)) : Beyond(rest, f - e)[k] = rest[(f - e) + k]
    BY <1>1, <1>4, BeyondFacts
  <1>10. /\ Beyond(text, f) \in Texts /\ Len(Beyond(text, f)) = n - f
         /\ \A k \in 1..(n - f) : Beyond(text, f)[k] = text[f + k]
    BY <1>2, BeyondFacts
  <1>11. Len(rest) - (f - e) = n - f
    BY <1>1, <1>3
  <1>12. ASSUME NEW k \in 1..(n - f)
         PROVE  Beyond(rest, f - e)[k] = Beyond(text, f)[k]
    <2>1. (f - e) + k \in 1..(n - e) /\ e + ((f - e) + k) = f + k
      BY <1>3
    <2>2. Beyond(rest, f - e)[k] = rest[(f - e) + k]
      BY <1>9, <1>11
    <2>3. rest[(f - e) + k] = text[e + ((f - e) + k)]
      BY <1>1, <2>1
    <2>4. Beyond(text, f)[k] = text[f + k]
      BY <1>10
    <2> QED  BY <2>1, <2>2, <2>3, <2>4
  <1>13. Beyond(rest, f - e) = Beyond(text, f)
    BY <1>9, <1>10, <1>11, <1>12, SeqEqual DEF Texts
  <1> QED  BY <1>8, <1>13

(* What can be used of what is read again is what can be used of the whole *)
(* from there on: a line begins behind a newline, so one that ends in the  *)
(* rest began in it.                                                       *)
LEMMA UsableAgain ==
    ASSUME NEW text \in Texts, Formed(text), NEW e \in 0..Len(text),
           e > 0 => text[e].part = "newline",
           NEW kind, NEW k \in 1..(Len(text) - e)
    PROVE  k \in Usable(Beyond(text, e), kind) <=> e + k \in Usable(text, kind)
  <1> DEFINE rest == Beyond(text, e)  n == Len(text)
  <1>1. rest \in Texts /\ Len(rest) = n - e /\ \A i \in 1..(n - e) : rest[i] = text[e + i]
    BY BeyondFacts
  <1> HIDE DEF rest
  <1>2. n \in Nat /\ e \in Nat /\ k \in Nat /\ k >= 1 /\ e + k \in 1..n
    BY DEF Texts
  <1>3. rest[k] = text[e + k]
    BY <1>1
  <1>4. k \in Usable(rest, kind) <=>
           /\ text[e + k].part = "newline" /\ k > 1
           /\ k > 2 => rest[k - 2].part = "newline"
           /\ text[e + k].of.kind = kind
    BY <1>1, <1>3, UsableFacts
  <1>5. e + k \in Usable(text, kind) <=>
           /\ text[e + k].part = "newline" /\ e + k > 1
           /\ e + k > 2 => text[e + k - 2].part = "newline"
           /\ text[e + k].of.kind = kind
    BY <1>2, UsableFacts
  <1>6. CASE k > 2
    <2>1. k - 2 \in 1..(n - e) /\ e + (k - 2) = e + k - 2
      BY <1>2, <1>6
    <2>2. rest[k - 2] = text[e + k - 2]
      BY <1>1, <2>1
    <2> QED  BY <1>2, <1>4, <1>5, <1>6, <2>2 DEF rest
  <1>7. CASE k = 2
    <2>1. e + k - 2 = e
      BY <1>2, <1>7
    <2> QED  BY <1>2, <1>4, <1>5, <1>7, <2>1 DEF rest
  <1>8. CASE k = 1
    <2>1. ~ (k \in Usable(rest, kind))
      BY <1>4, <1>8
    <2>2. e + k - 1 = e
      BY <1>2, <1>8
    <2>3. e + k > 1 => text[e].part = "newline"
      BY <1>2, <1>8
    <2>3a. text[e + k].part = "newline" =>
              e + k > 1 /\ text[e + k - 1] = [part |-> "text", of |-> text[e + k].of]
      BY <1>2 DEF Formed
    <2>4. text[e + k].part = "newline" => e + k > 1 /\ text[e].part = "text"
      BY <2>2, <2>3a
    <2> QED  BY <1>5, <2>1, <2>3, <2>4 DEF rest
  <1> QED  BY <1>2, <1>6, <1>7, <1>8

LEMMA UsableUpto ==
    ASSUME NEW text \in Texts, NEW o \in 0..Len(text), NEW kind, NEW k
    PROVE  k \in Usable(Upto(text, o), kind) <=> k \in 1..o /\ k \in Usable(text, kind)
  <1> DEFINE seen == Upto(text, o)
  <1>1. seen \in Texts /\ Len(seen) = o /\ \A i \in 1..o : seen[i] = text[i]
    BY UptoFacts
  <1> HIDE DEF seen
  <1>2. k \in Usable(seen, kind) <=>
           /\ k \in 1..o /\ seen[k].part = "newline" /\ k > 1
           /\ k > 2 => seen[k - 2].part = "newline"
           /\ seen[k].of.kind = kind
    BY <1>1, UsableFacts
  <1>3. k \in Usable(text, kind) <=>
           /\ k \in 1..Len(text) /\ text[k].part = "newline" /\ k > 1
           /\ k > 2 => text[k - 2].part = "newline"
           /\ text[k].of.kind = kind
    BY UsableFacts
  <1>4. o \in Nat /\ Len(text) \in Nat /\ o <= Len(text)
    BY DEF Texts
  <1>5. CASE k \in 1..o
    <2>1. k \in 1..Len(text) /\ seen[k] = text[k] /\ (k > 2 => seen[k - 2] = text[k - 2])
      BY <1>1, <1>4, <1>5
    <2> QED  BY <1>2, <1>3, <1>5, <2>1 DEF seen
  <1>6. CASE k \notin 1..o
    BY <1>2, <1>6 DEF seen
  <1> QED  BY <1>5, <1>6

(* Reading on from the end of the last whole line finds, of each kind, the *)
(* last entry there is in all of the text, if what is carried over is the  *)
(* last there was before.                                                  *)
LEMMA LastOfAgain ==
    ASSUME NEW text \in Texts, Formed(text), NEW o \in 0..Len(text),
           NEW e, e = EndOfLines(Upto(text, o)), NEW kind, NEW none
    PROVE  LastOf(Beyond(text, e), kind, LastOf(Upto(text, o), kind, none)) = LastOf(text, kind, none)
  <1> DEFINE rest == Beyond(text, e)  seen == Upto(text, o)  n == Len(text)
             U == Usable(text, kind)  R == Usable(rest, kind)  S == Usable(seen, kind)
  <1>1. seen \in Texts /\ Len(seen) = o /\ \A i \in 1..o : seen[i] = text[i]
    BY UptoFacts
  <1>2. /\ e \in 0..o /\ (e > 0 => seen[e].part = "newline")
        /\ \A k \in 1..o : seen[k].part = "newline" => k <= e
    BY <1>1, EndOfLinesFacts
  <1>3. n \in Nat /\ o \in Nat /\ e \in Nat /\ o <= n /\ e <= o /\ e \in 0..n
    BY <1>2 DEF Texts
  <1>4. e > 0 => text[e].part = "newline"
    BY <1>1, <1>2, <1>3
  <1>5. rest \in Texts /\ Len(rest) = n - e /\ \A i \in 1..(n - e) : rest[i] = text[e + i]
    BY <1>3, BeyondFacts
  <1>6. \A k \in 1..(n - e) : k \in R <=> e + k \in U
    BY <1>3, <1>4, UsableAgain
  <1>7. \A k : k \in S <=> k \in 1..o /\ k \in U
    BY UsableUpto
  <1>8. R \in SUBSET (1..(n - e)) /\ S \in SUBSET (1..o) /\ U \in SUBSET (1..n)
    BY <1>1, <1>5, UsableFacts
  <1>9. \A k \in S : k <= e
    <2>1. \A k \in S : k \in 1..o /\ seen[k].part = "newline"
      BY <1>1, <1>8, UsableFacts
    <2> QED  BY <1>2, <2>1
  <1> HIDE DEF rest, seen, U, R, S
  <1>10. CASE R # {}
    <2>1. Max(R) \in R /\ \A y \in R : Max(R) >= y
      <3>1. n - e \in Nat
        BY <1>3
      <3> QED  BY <1>8, <1>10, <3>1, GreatestOf
    <2>2. PICK m \in R : \A y \in R : m >= y
      BY <2>1
    <2>3. m \in 1..(n - e) /\ e + m \in U
      BY <1>6, <1>8, <2>2
    <2>4. \A y \in U : e + m >= y
      <3> SUFFICES ASSUME NEW y \in U
                   PROVE  e + m >= y
        OBVIOUS
      <3>1. y \in 1..n
        BY <1>8
      <3>2. CASE y <= e
        BY <1>3, <2>3, <3>1, <3>2
      <3>3. CASE y > e
        <4>1. y - e \in 1..(n - e) /\ e + (y - e) = y
          BY <1>3, <3>1, <3>3
        <4>2. y - e \in R
          BY <1>6, <4>1
        <4>3. m >= y - e
          BY <2>2, <4>2
        <4> QED  BY <1>3, <2>3, <3>1, <4>3
      <3> QED  BY <1>3, <3>1, <3>2, <3>3
    <2>5. LastOf(rest, kind, LastOf(seen, kind, none)) = rest[m].of
      BY <1>5, <2>2, LastOfIs DEF R
    <2>6. LastOf(text, kind, none) = text[e + m].of
      BY <2>3, <2>4, LastOfIs DEF U
    <2>7. rest[m] = text[e + m]
      BY <1>5, <2>3
    <2> QED  BY <2>5, <2>6, <2>7 DEF rest, seen
  <1>11. CASE R = {}
    <2>1. \A y \in U : y <= e
      <3> SUFFICES ASSUME NEW y \in U, y > e
                   PROVE  FALSE
        BY <1>3, <1>8
      <3>1. y \in 1..n
        BY <1>8
      <3>2. y - e \in 1..(n - e) /\ e + (y - e) = y
        BY <1>3, <1>11, <3>1
      <3>3. y - e \in R
        BY <1>6, <3>2
      <3> QED  BY <1>11, <3>3
    <2>2. U = S
      <3>1. \A k \in U : k \in 1..o
        BY <1>3, <1>8, <2>1
      <3> QED  BY <1>7, <3>1
    <2>3. LastOf(rest, kind, LastOf(seen, kind, none)) = LastOf(seen, kind, none)
      BY <1>11, LastOfNone DEF R
    <2>4. CASE S = {}
      BY <2>2, <2>3, <2>4, LastOfNone DEF S, U, rest, seen
    <2>5. CASE S # {}
      <3>1. PICK m \in S : \A y \in S : m >= y
        BY <1>3, <1>8, <2>5, GreatestOf
      <3>2. LastOf(seen, kind, none) = seen[m].of
        BY <1>1, <3>1, LastOfIs DEF S
      <3>3. LastOf(text, kind, none) = text[m].of
        BY <2>2, <3>1, LastOfIs DEF U
      <3>4. seen[m] = text[m]
        BY <1>1, <1>8, <3>1
      <3> QED  BY <2>3, <3>2, <3>3, <3>4 DEF rest, seen
    <2> QED  BY <2>4, <2>5
  <1> QED  BY <1>10, <1>11

(* Catching up from what a reading holds is reading the whole file.        *)
HasRead(r, text) ==
    LET seen == Upto(text, r.offset)
    IN  /\ r.offset \in 0..Len(text) /\ r.partial = TailOf(seen)
        /\ r.span = LastOf(seen, "span", Nothing)
        /\ r.note = LastOf(seen, "note", Nothing)

LEMMA CaughtUpFacts ==
    ASSUME file \in Texts, Formed(file), NEW r, HasRead(r, file)
    PROVE  /\ CaughtUp(r) = [offset  |-> Len(file), partial |-> TailOf(file),
                             span |-> LastOf(file, "span", Nothing),
                             note |-> LastOf(file, "note", Nothing)]
           /\ HasRead(CaughtUp(r), file)
  <1> DEFINE o == r.offset  seen == Upto(file, o)  e == EndOfLines(seen)
             text == r.partial \o SubSeq(file, o + 1, Len(file))
  <1>1. o \in 0..Len(file) /\ r.partial = TailOf(seen)
    BY DEF HasRead
  <1>2. e \in 0..o /\ TailOf(seen) \o Beyond(file, o) = Beyond(file, e) /\ Len(TailOf(seen)) = o - e
    BY <1>1, HeldTail
  <1>3. text = Beyond(file, e)
    BY <1>1, <1>2 DEF Beyond
  <1>4. Len(file) \in Nat /\ o \in Nat /\ e \in Nat /\ e \in 0..Len(file)
    BY <1>1, <1>2 DEF Texts
  <1>5. Len(text) = Len(file) - e
    BY <1>3, <1>4, BeyondFacts
  <1>6. Position(r, text) = Len(file)
    BY <1>1, <1>2, <1>4, <1>5 DEF Position
  <1>7. e > 0 => file[e].part = "newline"
    <2>1. seen \in Texts /\ Len(seen) = o /\ \A i \in 1..o : seen[i] = file[i]
      BY <1>1, UptoFacts
    <2>2. e > 0 => seen[e].part = "newline"
      BY <2>1, EndOfLinesFacts
    <2> QED  BY <1>2, <1>4, <2>1, <2>2
  <1>8. TailOf(text) = TailOf(file)
    BY <1>3, <1>4, <1>7, TailAgain
  <1>9. ASSUME NEW kind
        PROVE  LastOf(text, kind, LastOf(seen, kind, Nothing)) = LastOf(file, kind, Nothing)
    <2>1. LastOf(Beyond(file, e), kind, LastOf(seen, kind, Nothing)) = LastOf(file, kind, Nothing)
      BY <1>1, LastOfAgain
    <2> HIDE DEF text, e, seen
    <2> QED  BY <1>3, <2>1
  <1>10. CaughtUp(r) = [offset  |-> Position(r, text), partial |-> TailOf(text),
                        span |-> LastOf(text, "span", r.span),
                        note |-> LastOf(text, "note", r.note)]
    BY DEF CaughtUp
  <1>11. r.span = LastOf(seen, "span", Nothing) /\ r.note = LastOf(seen, "note", Nothing)
    BY DEF HasRead
  <1>12. Upto(file, Len(file)) = file
    BY SubSeqFull DEF Upto, Texts
  <1> HIDE DEF text, seen, e, o
  <1>13. CaughtUp(r) = [offset  |-> Len(file), partial |-> TailOf(file),
                        span |-> LastOf(file, "span", Nothing),
                        note |-> LastOf(file, "note", Nothing)]
    BY <1>6, <1>8, <1>9, <1>10, <1>11
  <1> QED  BY <1>4, <1>12, <1>13 DEF HasRead

-----------------------------------------------------------------------------
(* Texts that grow. *)

(* A line of a step that can be read. *)
Told(text, s) ==
    \E k \in 1..Len(text) :
        /\ text[k].part = "newline" /\ k > 1 /\ (k > 2 => text[k - 2].part = "newline")
        /\ text[k].of.kind = "span" /\ text[k].of.step = s

(* The text of a run that found none: line upon line, and one header. *)
Single(text) ==
    \A k \in 1..Len(text) :
        /\ text[k].part = "text" => k = 1 \/ text[k - 1].part = "newline"
        /\ k > 2 => text[k].of.kind # "header"

LEMMA GrownFacts ==
    ASSUME NEW text \in Texts, NEW more \in Texts
    PROVE  /\ text \o more \in Texts /\ Len(text \o more) = Len(text) + Len(more)
           /\ Len(text) \in Nat /\ Len(more) \in Nat
           /\ \A k \in 1..Len(text) : (text \o more)[k] = text[k]
           /\ \A k \in 1..Len(more) : (text \o more)[Len(text) + k] = more[k]
  <1>1. text \in Seq(Pieces) /\ more \in Seq(Pieces)
    BY DEF Texts
  <1>2. /\ text \o more \in Seq(Pieces) /\ Len(text \o more) = Len(text) + Len(more)
        /\ \A i \in 1..(Len(text) + Len(more)) :
              (text \o more)[i] = IF i <= Len(text) THEN text[i] ELSE more[i - Len(text)]
    BY <1>1, ConcatProperties
  <1>3. Len(text) \in Nat /\ Len(more) \in Nat
    BY <1>1
  <1>4. ASSUME NEW k \in 1..Len(text)
        PROVE  (text \o more)[k] = text[k]
    BY <1>2, <1>3
  <1>5. ASSUME NEW k \in 1..Len(more)
        PROVE  (text \o more)[Len(text) + k] = more[k]
    <2>1. /\ Len(text) + k \in 1..(Len(text) + Len(more)) /\ ~ (Len(text) + k <= Len(text))
          /\ (Len(text) + k) - Len(text) = k
      BY <1>3
    <2> QED  BY <1>2, <2>1
  <1> QED  BY <1>2, <1>3, <1>4, <1>5 DEF Texts

(* What was well begun stays so, and what was told stays told. *)
LEMMA BeginningFacts ==
    ASSUME NEW text \in Texts, NEW more \in Texts
    PROVE  /\ Formed(text \o more) => Formed(text)
           /\ Single(text \o more) => Single(text)
           /\ \A s : Told(text, s) => Told(text \o more, s)
  <1> DEFINE all == text \o more  n == Len(text)
  <1>1. Len(all) \in Nat /\ n \in Nat /\ n <= Len(all) /\ \A k \in 1..n : all[k] = text[k]
    BY GrownFacts
  <1> HIDE DEF all
  <1>2. Formed(all) => Formed(text)
    <2> SUFFICES ASSUME Formed(all), NEW k \in 1..n, text[k].part = "newline"
                 PROVE  k > 1 /\ text[k - 1] = [part |-> "text", of |-> text[k].of]
      BY DEF Formed
    <2>1. k \in 1..Len(all) /\ all[k] = text[k]
      BY <1>1
    <2>2. k > 1 /\ all[k - 1] = [part |-> "text", of |-> all[k].of]
      BY <2>1 DEF Formed
    <2>3. k - 1 \in 1..n
      BY <1>1, <2>2
    <2> QED  BY <1>1, <2>1, <2>2, <2>3
  <1>3. Single(all) => Single(text)
    <2> SUFFICES ASSUME Single(all), NEW k \in 1..n
                 PROVE  /\ text[k].part = "text" => k = 1 \/ text[k - 1].part = "newline"
                        /\ k > 2 => text[k].of.kind # "header"
      BY DEF Single
    <2>1. k \in 1..Len(all) /\ all[k] = text[k]
      BY <1>1
    <2>2. k = 1 \/ k - 1 \in 1..n
      BY <1>1
    <2>3. k = 1 \/ all[k - 1] = text[k - 1]
      BY <1>1, <2>2
    <2>4. /\ all[k].part = "text" => k = 1 \/ all[k - 1].part = "newline"
          /\ k > 2 => all[k].of.kind # "header"
      BY <2>1 DEF Single
    <2> QED  BY <2>1, <2>3, <2>4
  <1>4. ASSUME NEW s, Told(text, s)
        PROVE  Told(all, s)
    <2>1. PICK k \in 1..n :
             /\ text[k].part = "newline" /\ k > 1 /\ (k > 2 => text[k - 2].part = "newline")
             /\ text[k].of.kind = "span" /\ text[k].of.step = s
      BY <1>4 DEF Told
    <2>2. k \in 1..Len(all) /\ all[k] = text[k]
      BY <1>1
    <2>3. k > 2 => k - 2 \in 1..n
      BY <1>1
    <2>4. k > 2 => all[k - 2] = text[k - 2]
      BY <1>1, <2>3
    <2> QED  BY <2>1, <2>2, <2>4 DEF Told
  <1> QED  BY <1>2, <1>3, <1>4 DEF all

LEMMA LineFacts ==
    ASSUME NEW entry \in Entries
    PROVE  /\ Line(entry) \in Texts /\ Len(Line(entry)) = 2
           /\ Line(entry)[1] = [part |-> "text", of |-> entry]
           /\ Line(entry)[2] = [part |-> "newline", of |-> entry]
  BY DEF Line, Texts, Pieces

(* A line more. *)
LineMore(text, entry, all) ==
    /\ all \in Texts /\ Len(all) = Len(text) + 2
    /\ \A k \in 1..Len(text) : all[k] = text[k]
    /\ all[Len(text) + 1] = [part |-> "text", of |-> entry]
    /\ all[Len(text) + 2] = [part |-> "newline", of |-> entry]

LEMMA LineAdded ==
    ASSUME NEW text \in Texts, NEW entry \in Entries
    PROVE  LineMore(text, entry, text \o Line(entry))
  <1> DEFINE all == text \o Line(entry)
  <1>1. /\ Line(entry) \in Texts /\ Len(Line(entry)) = 2
        /\ Line(entry)[1] = [part |-> "text", of |-> entry]
        /\ Line(entry)[2] = [part |-> "newline", of |-> entry]
    BY LineFacts
  <1>2. /\ all \in Texts /\ Len(all) = Len(text) + Len(Line(entry))
        /\ Len(text) \in Nat /\ Len(Line(entry)) \in Nat
        /\ \A k \in 1..Len(text) : all[k] = text[k]
        /\ \A k \in 1..Len(Line(entry)) : all[Len(text) + k] = Line(entry)[k]
    BY <1>1, GrownFacts
  <1> HIDE DEF all
  <1>3. 1 \in 1..Len(Line(entry)) /\ 2 \in 1..Len(Line(entry))
    BY <1>1
  <1>4. all[Len(text) + 1] = Line(entry)[1] /\ all[Len(text) + 2] = Line(entry)[2]
    BY <1>2, <1>3
  <1> QED  BY <1>1, <1>2, <1>4 DEF LineMore, all

LEMMA LineMoreFacts ==
    ASSUME NEW text \in Texts, Formed(text), NEW entry \in Entries,
           NEW all, LineMore(text, entry, all)
    PROVE  /\ all \in Texts /\ Formed(all) /\ Ended(all)
           /\ Len(all) > 1 /\ all[Len(all)] = [part |-> "newline", of |-> entry]
           /\ Single(text) /\ (text = << >> \/ (Ended(text) /\ entry.kind # "header")) => Single(all)
           /\ \A s : Told(text, s) => Told(all, s)
           /\ Ended(text) /\ entry.kind = "span" => Told(all, entry.step)
  <1>a. all \in Texts
    BY DEF LineMore
  <1> DEFINE n == Len(text)
  <1>1. /\ Len(all) = n + 2 /\ n \in Nat
        /\ \A k \in 1..n : all[k] = text[k]
    BY DEF LineMore, Texts
  <1>3. /\ all[n + 1] = [part |-> "text", of |-> entry]
        /\ all[n + 2] = [part |-> "newline", of |-> entry]
    BY DEF LineMore
  <1>b. n = Len(text)
    OBVIOUS
  <1> HIDE DEF n
  <1>4. Formed(all)
    <2> SUFFICES ASSUME NEW k \in 1..(n + 2), all[k].part = "newline"
                 PROVE  k > 1 /\ all[k - 1] = [part |-> "text", of |-> all[k].of]
      BY <1>1 DEF Formed, n
    <2>1. CASE k = n + 2
      <3>1. k - 1 = n + 1 /\ k > 1
        BY <1>1, <2>1
      <3>2. all[k] = [part |-> "newline", of |-> entry] /\ all[k - 1] = [part |-> "text", of |-> entry]
        BY <1>3, <2>1, <3>1
      <3> QED  BY <3>1, <3>2
    <2>2. CASE k = n + 1
      <3>1. all[k] = [part |-> "text", of |-> entry]
        BY <1>3, <2>2
      <3> QED  BY <3>1
    <2>3. CASE k \in 1..n
      <3>1. all[k] = text[k]
        BY <1>1, <2>3
      <3>2. k > 1 /\ text[k - 1] = [part |-> "text", of |-> text[k].of]
        BY <2>3, <3>1 DEF Formed, n
      <3>3. k - 1 \in 1..n
        BY <1>1, <2>3, <3>2
      <3> QED  BY <1>1, <3>1, <3>2, <3>3
    <2>4. k \in 1..n \/ k = n + 1 \/ k = n + 2
      BY <1>1
    <2> QED  BY <2>1, <2>2, <2>3, <2>4
  <1>5. Ended(all) /\ Len(all) > 1 /\ all[Len(all)] = [part |-> "newline", of |-> entry]
    BY <1>1, <1>3 DEF Ended, n
  <1>6. ASSUME Single(text), text = << >> \/ (Ended(text) /\ entry.kind # "header")
        PROVE  Single(all)
    <2> SUFFICES ASSUME NEW k \in 1..(n + 2)
                 PROVE  /\ all[k].part = "text" => k = 1 \/ all[k - 1].part = "newline"
                        /\ k > 2 => all[k].of.kind # "header"
      BY <1>1 DEF Single, n
    <2>0. text = << >> => n = 0
      BY DEF n
    <2>1. CASE k = n + 2
      BY <1>1, <1>3, <1>6, <2>0, <2>1
    <2>2. CASE k = n + 1
      <3>1. n = 0 \/ (n \in 1..n /\ text[n].part = "newline" /\ entry.kind # "header")
        BY <1>1, <1>6, <2>0 DEF Ended, n
      <3>2. n = 0 \/ (all[n] = text[n])
        BY <1>1, <3>1
      <3>3. k - 1 = n
        <4>1. n \in Nat
          BY <1>1
        <4> QED  BY <2>2, <4>1
      <3>4. all[k].of = entry
        BY <1>3, <2>2
      <3>5. CASE n = 0
        BY <2>2, <3>5
      <3>6. CASE n # 0
        <4>1. all[k - 1].part = "newline" /\ entry.kind # "header"
          BY <3>1, <3>2, <3>3, <3>6
        <4> QED  BY <3>4, <4>1
      <3> QED  BY <3>5, <3>6
    <2>3. CASE k \in 1..n
      <3>1. all[k] = text[k]
        BY <1>1, <2>3
      <3>2. /\ text[k].part = "text" => k = 1 \/ text[k - 1].part = "newline"
            /\ k > 2 => text[k].of.kind # "header"
        BY <1>6, <2>3 DEF Single, n
      <3>3. k = 1 \/ k - 1 \in 1..n
        BY <1>1, <2>3
      <3>4. k = 1 \/ all[k - 1] = text[k - 1]
        BY <1>1, <3>3
      <3> QED  BY <3>1, <3>2, <3>4
    <2>4. k \in 1..n \/ k = n + 1 \/ k = n + 2
      BY <1>1
    <2> QED  BY <2>1, <2>2, <2>3, <2>4
  <1>7. ASSUME NEW s, Told(text, s)
        PROVE  Told(all, s)
    <2>1. PICK k \in 1..n :
             /\ text[k].part = "newline" /\ k > 1 /\ (k > 2 => text[k - 2].part = "newline")
             /\ text[k].of.kind = "span" /\ text[k].of.step = s
      BY <1>7 DEF Told, n
    <2>2. k \in 1..Len(all) /\ all[k] = text[k]
      BY <1>1
    <2>3. k > 2 => k - 2 \in 1..n
      BY <1>1
    <2>4. k > 2 => all[k - 2] = text[k - 2]
      BY <1>1, <2>3
    <2> QED  BY <2>1, <2>2, <2>4 DEF Told
  <1>8. ASSUME Ended(text), entry.kind = "span"
        PROVE  Told(all, entry.step)
    <2>1. n > 0 /\ text[n].part = "newline" /\ n \in 1..n
      BY <1>1, <1>8 DEF Ended, n
    <2>2. all[n] = text[n]
      BY <1>1, <2>1
    <2>3. n + 2 \in 1..Len(all) /\ n + 2 > 1 /\ (n + 2) - 2 = n
      BY <1>1
    <2>4. all[n + 2].part = "newline" /\ all[n + 2].of = entry
      BY <1>3
    <2>5. all[(n + 2) - 2].part = "newline"
      BY <2>1, <2>2, <2>3
    <2> QED  BY <1>8, <2>3, <2>4, <2>5 DEF Told
  <1> QED  BY <1>4, <1>5, <1>6, <1>7, <1>8, <1>a

-----------------------------------------------------------------------------
(* The invariant.  A line can be cut short only where its child ends, so   *)
(* what can be said of whole lines is said of the file with what is still  *)
(* to be written behind it.                                                *)
Meant == file \o writing

Reasons  == {"none", "failed", "unavailable", "left"}
Statuses == {"none", "ok", "failed", "unavailable", "left", "signal"}
Pcs      == {"dead", "spawned", "listening", "running", "between", "closing", "ending", "exiting"}
Children == [pc : Pcs, run : 0..MaxRuns, step : 0..MaxSteps, pending : BOOLEAN,
             stopping : BOOLEAN, used : BOOLEAN, raised : Reasons, status : Statuses]

Typed ==
    /\ file \in Texts /\ writing \in Texts
    /\ disk \in 0..MaxSteps /\ child \in Children
    /\ caller \in {"free", "grace", "killed"}

(* How far a child has come, and why it goes no further. *)
ChildIs(c) ==
    /\ c.run = 0 => c.pc = "dead" /\ c.status = "none" /\ c.step = 0
    /\ c.pc \in {"spawned", "listening", "running", "between"} => c.raised = "none" /\ ~c.used
    /\ c.pc = "ending" => c.raised # "left"
    /\ c.pc \in {"closing", "ending"} /\ c.raised = "none" => c.used \/ c.stopping
    /\ c.pc = "dead" /\ c.run > 0 /\ c.status # "signal" /\ c.raised # "left" =>
          c.status = (IF c.raised = "none" THEN "ok" ELSE c.raised)

(* What it has said of its steps, and when it is not asked any more. *)
Lines ==
    /\ Formed(Meant)
    /\ child.pc \in {"dead", "spawned", "listening"} => writing = << >>
    /\ child.pc \in {"running", "between"} => Ended(Meant)
    /\ \A s \in 1..disk : Told(file, s)
    /\ \A s \in 1..child.step : Told(Meant, s)

(* The first run in the directory. *)
OneRun ==
    child.run <= 1 =>
        /\ Single(Meant)
        /\ Living => Meant = << >> \/ Ended(Meant)
        /\ child.run = 0 \/ child.pc \in {"spawned", "listening"} => Meant = << >>

(* The last line of a child that has said all it had to say. *)
LastWord(c, text) ==
    /\ c.run > 0 /\ c.raised # "left"
    /\ c.pc = "exiting" \/ (c.pc = "dead" /\ c.status # "signal")
    => \E x \in Events :
              /\ Len(text) > 1
              /\ text[Len(text)] = [part |-> "newline", of |-> Note(c.run, x)]
              /\ IF c.raised = "none"
                 THEN (x = "finished" /\ c.used) \/ (x = "stopped" /\ c.stopping)
                 ELSE x = c.raised

(* What the parent has been told by the system and by the file. *)
Heard ==
    outcome # NoOutcome =>
        /\ child.pc = "dead" /\ child.run > 0
        /\ outcome = [status |-> child.status, note |-> LastOf(file, "note", Nothing)]

IInv == /\ Typed /\ ChildIs(child) /\ Lines /\ OneRun /\ LastWord(child, Meant)
        /\ HasRead(reading, file) /\ Heard

LEMMA BoundsFacts == MaxRuns \in Nat /\ MaxSteps \in Nat
  BY BoundsAssumption

LEMMA UnreadFacts ==
    ASSUME NEW f \in Texts
    PROVE  HasRead(Unread, f)
  <1>1. 0 \in 0..Len(f) /\ Upto(f, 0) \in Texts /\ Len(Upto(f, 0)) = 0
    BY UptoFacts DEF Texts
  <1>2. Upto(f, 0) = << >>
    BY <1>1 DEF Texts
  <1>3. Ends(<< >>) = {} /\ EndOfLines(<< >>) = 0
    BY DEF Ends, EndOfLines
  <1>4. TailOf(<< >>) = << >>
    BY <1>3 DEF TailOf
  <1>5. Usable(<< >>, "span") = {} /\ Usable(<< >>, "note") = {}
    BY <1>3 DEF Usable
  <1>6. LastOf(<< >>, "span", Nothing) = Nothing /\ LastOf(<< >>, "note", Nothing) = Nothing
    BY <1>5, LastOfNone
  <1> QED  BY <1>1, <1>2, <1>4, <1>6 DEF HasRead, Unread

LEMMA InitIInv == Init => IInv
  <1> SUFFICES ASSUME Init
               PROVE  IInv
    OBVIOUS
  <1> USE BoundsFacts
  <1>1. file = << >> /\ writing = << >> /\ << >> \in Texts /\ Len(<< >>) = 0
    BY DEF Init, Texts
  <1>2. Meant = << >>
    BY <1>1 DEF Meant
  <1>3. Typed /\ ChildIs(child)
    BY <1>1 DEF Init, Typed, NoChild, Children, Pcs, Reasons, Statuses, ChildIs
  <1>4. \A t : t = << >> => Formed(t) /\ Single(t)
    BY DEF Formed, Single
  <1>5. Lines /\ OneRun
    BY <1>1, <1>2, <1>4 DEF Init, Lines, OneRun, NoChild, Living
  <1>6. LastWord(child, Meant)
    BY DEF Init, LastWord, NoChild
  <1>7. HasRead(reading, file)
    BY <1>1, UnreadFacts DEF Init
  <1>8. Heard
    BY DEF Init, Heard
  <1> QED  BY <1>3, <1>5, <1>6, <1>7, <1>8 DEF IInv

(* Entries the child writes are entries. *)
LEMMA EntryFacts ==
    /\ Nothing \in Entries
    /\ \A r \in 0..MaxRuns : Header(r) \in Entries
    /\ \A r \in 0..MaxRuns, s \in 0..MaxSteps : Span(r, s) \in Entries /\ Mark(r, s) \in Entries
    /\ \A r \in 0..MaxRuns, e \in Events : Note(r, e) \in Entries
  BY BoundsFacts DEF Nothing, Header, Span, Mark, Note, Entry, Entries, Events

LEMMA LastOfIsAnEntry ==
    ASSUME NEW text \in Texts, NEW kind, NEW before \in Entries
    PROVE  LastOf(text, kind, before) \in Entries
  <1>1. Usable(text, kind) \in SUBSET (1..Len(text)) /\ Len(text) \in Nat
    BY UsableFacts DEF Texts
  <1>2. CASE Usable(text, kind) = {}
    BY <1>2, LastOfNone
  <1>3. CASE Usable(text, kind) # {}
    <2>1. PICK m \in Usable(text, kind) : \A y \in Usable(text, kind) : m >= y
      BY <1>1, <1>3, GreatestOf
    <2>2. LastOf(text, kind, before) = text[m].of
      BY <2>1, LastOfIs
    <2>3. m \in 1..Len(text)
      BY <1>1, <2>1
    <2>4. text[m] \in Pieces
      BY <2>3 DEF Texts
    <2> QED  BY <2>2, <2>4 DEF Pieces
  <1> QED  BY <1>2, <1>3

(* What is written is what was meant to be. *)
LEMMA WritingFacts ==
    ASSUME NEW f \in Texts, NEW w \in Texts, w # << >>
    PROVE  /\ Append(f, Head(w)) \in Texts /\ Tail(w) \in Texts
           /\ Append(f, Head(w)) \o Tail(w) = f \o w
           /\ Append(f, Head(w)) = f \o << Head(w) >> /\ << Head(w) >> \in Texts
           /\ Len(Append(f, Head(w))) = Len(f) + 1
           /\ \A k \in 1..Len(f) : Append(f, Head(w))[k] = f[k]
  <1>1. /\ f \in Seq(Pieces) /\ w \in Seq(Pieces)
        /\ Head(w) \in Pieces /\ Tail(w) \in Seq(Pieces) /\ w = << Head(w) >> \o Tail(w)
    BY HeadTailProperties DEF Texts
  <1>2. << Head(w) >> \in Seq(Pieces)
    BY <1>1
  <1>3. Append(f, Head(w)) = f \o << Head(w) >>
    BY <1>1, AppendIsConcat
  <1>4. (f \o << Head(w) >>) \o Tail(w) = f \o (<< Head(w) >> \o Tail(w))
    BY <1>1, <1>2, ConcatAssociative
  <1>5. /\ Append(f, Head(w)) \in Seq(Pieces) /\ Len(Append(f, Head(w))) = Len(f) + 1
        /\ \A k \in 1..Len(f) : Append(f, Head(w))[k] = f[k]
    BY <1>1, AppendProperties
  <1>6. Append(f, Head(w)) \o Tail(w) = f \o w
    BY <1>1, <1>3, <1>4
  <1> QED  BY <1>1, <1>2, <1>3, <1>5, <1>6 DEF Texts

-----------------------------------------------------------------------------
(* What each action keeps. *)

ChildQuietly ==
    \/ Deliver \/ Interrupt \/ Listen \/ NextBatch \/ HasNothingToDo
    \/ IsUnavailable \/ ChildRaises \/ Leaves \/ Exit
ChildPuts == Step \/ Save \/ UsedUp \/ CloseSession \/ Finish
IsEnded     == Crash \/ TimeUp
Reaps     == Hears \/ Answered \/ Buried

LEMMA NextShape ==
    Next <=> \/ WritePiece \/ IsEnded \/ ChildQuietly \/ OpenSession \/ ChildPuts
             \/ Start \/ StopBegins \/ Poll \/ Reaps
  BY DEF Next, ChildSide, InStop, ChildQuietly, ChildPuts, IsEnded, Reaps

(* The fields of a child that is made anew. *)
Fresh(c, pc, run, status) ==
    /\ c \in Children /\ c.pc = pc /\ c.run = run /\ c.step = 0 /\ ~c.used /\ ~c.stopping
    /\ c.raised = "none" /\ c.status = status

LEMMA FreshFacts ==
    /\ Fresh(NoChild, "dead", 0, "none")
    /\ \A c, pc, run, status, v :
          Fresh(c, pc, run, status) =>
             /\ v \in Pcs => Fresh([c EXCEPT !.pc = v], v, run, status)
             /\ v \in 0..MaxRuns => Fresh([c EXCEPT !.run = v], pc, v, status)
             /\ v \in Statuses => Fresh([c EXCEPT !.status = v], pc, run, v)
  <1>1. 0 \in 0..MaxSteps /\ 0 \in 0..MaxRuns
    BY BoundsFacts
  <1>2. Fresh(NoChild, "dead", 0, "none")
    BY <1>1 DEF Fresh, NoChild, Children, Pcs, Reasons, Statuses
  <1>3. ASSUME NEW c, NEW pc, NEW run, NEW status, NEW v, Fresh(c, pc, run, status)
        PROVE  /\ v \in Pcs => Fresh([c EXCEPT !.pc = v], v, run, status)
               /\ v \in 0..MaxRuns => Fresh([c EXCEPT !.run = v], pc, v, status)
               /\ v \in Statuses => Fresh([c EXCEPT !.status = v], pc, run, v)
    BY <1>3 DEF Fresh, Children
  <1> QED  BY <1>2, <1>3

LEMMA KilledFacts ==
    ASSUME Typed, Killed
    PROVE  Fresh(child', "dead", child.run, "signal")
  <1>1. child.run \in 0..MaxRuns /\ "signal" \in Statuses
    BY DEF Typed, Children, Statuses
  <1> DEFINE c == [NoChild EXCEPT !.run = child.run]
  <1>2. Fresh(c, "dead", child.run, "none")
    BY <1>1, FreshFacts
  <1>3. child' = [c EXCEPT !.status = "signal"]
    BY DEF Killed
  <1> HIDE DEF c
  <1> QED  BY <1>1, <1>2, <1>3, FreshFacts

LEMMA StartFacts ==
    ASSUME Typed, Start
    PROVE  Fresh(child', "spawned", child.run + 1, "none") /\ child.run + 1 \in 0..MaxRuns
  <1>1. child.run + 1 \in 0..MaxRuns /\ "spawned" \in Pcs
    BY BoundsFacts DEF Typed, Children, Start, Pcs
  <1> DEFINE c == [NoChild EXCEPT !.pc = "spawned"]  n == child.run + 1
  <1>2. Fresh(c, "spawned", 0, "none")
    BY <1>1, FreshFacts
  <1>3. child' = [c EXCEPT !.run = n] /\ n \in 0..MaxRuns
    BY <1>1 DEF Start
  <1> HIDE DEF c, n
  <1>4. Fresh(child', "spawned", n, "none")
    BY <1>2, <1>3, FreshFacts
  <1> QED  BY <1>1, <1>4 DEF n

LEMMA ChildTyped ==
    ASSUME Typed, ChildIs(child), Next
    PROVE  child' \in Children /\ ChildIs(child')
  <1>0. ASSUME Killed, Living
        PROVE  child' \in Children /\ ChildIs(child')
    <2>1. child.run # 0
      BY <1>0 DEF ChildIs, Living
    <2>2. Fresh(child', "dead", child.run, "signal")
      BY <1>0, KilledFacts
    <2> QED  BY <2>1, <2>2 DEF Fresh, ChildIs
  <1>2. CASE IsEnded
    BY <1>0, <1>2 DEF IsEnded, Crash, TimeUp
  <1> USE BoundsFacts DEF Typed, ChildIs, Children, Pcs, Reasons, Statuses
  <1>1. CASE WritePiece \/ Poll \/ Reaps
    BY <1>1 DEF WritePiece, Poll, Reaps, Hears, Answered, Buried, Reap, ChildGoesOn
  <1>3. CASE Deliver
    <2>1. CASE Killed
      BY <1>0, <1>3, <2>1 DEF Deliver
    <2>2. CASE child.pc # "spawned" /\ child' = [child EXCEPT !.pending = FALSE, !.stopping = TRUE]
      BY <2>2
    <2> QED  BY <1>3, <2>1, <2>2 DEF Deliver, Handled
  <1>4. CASE Interrupt
    BY <1>4 DEF Interrupt
  <1>5. CASE Listen \/ NextBatch
    BY <1>5 DEF Listen, NextBatch, Goes, At
  <1>6. CASE HasNothingToDo \/ IsUnavailable
    BY <1>6 DEF HasNothingToDo, IsUnavailable, At
  <1>7. CASE ChildRaises \/ Leaves
    BY <1>7 DEF ChildRaises, Leaves, At
  <1>8. CASE Exit
    BY ZenonT(40), <1>8 DEF Exit, At
  <1>9. CASE OpenSession
    BY <1>9 DEF OpenSession, At
  <1>10. CASE Step
    <2>1. /\ child.pc = "running" /\ child.step + 1 \in 0..MaxSteps
          /\ child' = [child EXCEPT !.pc = "between", !.step = child.step + 1]
      BY <1>10 DEF Step, At
    <2> DEFINE n == child.step + 1
    <2>2. n \in 0..MaxSteps /\ child' = [child EXCEPT !.pc = "between", !.step = n]
      BY <2>1
    <2> HIDE DEF n
    <2> QED  BY <2>1, <2>2
  <1>11. CASE Save \/ UsedUp
    BY <1>11 DEF Save, UsedUp, At
  <1>12. CASE CloseSession \/ Finish
    BY <1>12 DEF CloseSession, Finish, Goes, At
  <1>13. CASE Start
    <2>1. Fresh(child', "spawned", child.run + 1, "none")
      BY <1>13, StartFacts
    <2>2. child.run + 1 # 0
      OBVIOUS
    <2> QED  BY <2>1, <2>2 DEF Fresh
  <1>14. CASE StopBegins
    BY <1>14 DEF StopBegins, Living
  <1> QED  BY <1>1, <1>2, <1>3, <1>4, <1>5, <1>6, <1>7, <1>8, <1>9, <1>10, <1>11, <1>12,
              <1>13, <1>14, NextShape DEF ChildQuietly, ChildPuts

LEMMA JoinFacts ==
    ASSUME NEW a \in Texts, NEW b \in Texts
    PROVE  /\ a \o b \in Texts
           /\ \A c \in Texts : (a \o b) \o c = a \o (b \o c)
  BY ConcatProperties, ConcatAssociative DEF Texts

(* The lines of a session's beginning. *)
LEMMA OpeningFacts ==
    ASSUME Typed, Formed(file), OpenSession
    PROVE  /\ file' = file /\ writing' \in Texts
           /\ Formed(Meant') /\ Ended(Meant')
           /\ Single(file) /\ file = << >> => Single(Meant')
           /\ \A s : Told(file, s) => Told(Meant', s)
  <1> DEFINE h == Header(child.run)  o == Note(child.run, "opened")  r == Note(child.run, "restored")
             one == file \o Line(h)  two == one \o Line(o)  three == two \o Line(r)
  <1>1. child.run \in 0..MaxRuns /\ file \in Texts
    BY DEF Typed, Children
  <1>2. h \in Entries /\ o \in Entries /\ r \in Entries
    BY <1>1, EntryFacts DEF Events
  <1>3. /\ o.kind # "header" /\ r.kind # "header"
    BY DEF Note, Entry
  <1>4. Line(h) \in Texts /\ Line(o) \in Texts /\ Line(r) \in Texts
    BY <1>2, LineFacts
  <1>5. /\ file' = file
        /\ writing' = Line(h) \o Line(o) \o (IF disk > 0 THEN Line(r) ELSE << >>)
    BY DEF OpenSession, Opened
  <1> HIDE DEF h, o, r
  <1>6. LineMore(file, h, one)
    BY <1>1, <1>2, LineAdded
  <1>7. /\ one \in Texts /\ Formed(one) /\ Ended(one)
        /\ Single(file) /\ file = << >> => Single(one)
        /\ \A s : Told(file, s) => Told(one, s)
    BY <1>1, <1>2, <1>6, LineMoreFacts
  <1> HIDE DEF one
  <1>8. LineMore(one, o, two)
    BY <1>2, <1>7, LineAdded
  <1>9. /\ two \in Texts /\ Formed(two) /\ Ended(two)
        /\ Single(one) => Single(two)
        /\ \A s : Told(one, s) => Told(two, s)
    BY <1>2, <1>3, <1>7, <1>8, LineMoreFacts
  <1> HIDE DEF two
  <1>10. LineMore(two, r, three)
    BY <1>2, <1>9, LineAdded
  <1>11. /\ three \in Texts /\ Formed(three) /\ Ended(three)
         /\ Single(two) => Single(three)
         /\ \A s : Told(two, s) => Told(three, s)
    BY <1>2, <1>3, <1>9, <1>10, LineMoreFacts
  <1> HIDE DEF three
  <1>12. Line(h) \o Line(o) \in Texts /\ file \o (Line(h) \o Line(o)) = two
    BY <1>1, <1>4, JoinFacts DEF one, two
  <1>13. CASE disk > 0
    <2>1. writing' = (Line(h) \o Line(o)) \o Line(r)
      BY <1>5, <1>13
    <2>2. writing' \in Texts /\ file \o writing' = three
      BY ZenonT(40), <1>1, <1>4, <1>12, <2>1, JoinFacts DEF three
    <2>3. Meant' = three
      BY <1>5, <2>2 DEF Meant
    <2> QED  BY <1>5, <1>7, <1>9, <1>11, <2>2, <2>3
  <1>14. CASE ~ (disk > 0)
    <2>1. writing' = Line(h) \o Line(o)
      BY <1>5, <1>12, <1>14, ConcatEmptySeq DEF Texts
    <2>2. Meant' = two /\ writing' \in Texts
      BY <1>5, <1>12, <2>1 DEF Meant
    <2> QED  BY <1>5, <1>7, <1>9, <2>2
  <1> QED  BY <1>13, <1>14

LEMMA NothingToWrite ==
    ASSUME file \in Texts, writing = << >>
    PROVE  Meant = file
  BY ConcatEmptySeq DEF Texts, Meant

(* A line is put behind what there is. *)
LEMMA PuttingFacts ==
    ASSUME Typed, Formed(file), writing = << >>, file' = file,
           NEW entry \in Entries, writing' = Line(entry)
    PROVE  /\ writing' \in Texts /\ LineMore(file, entry, Meant') /\ Meant = file
           /\ Formed(Meant') /\ Ended(Meant')
           /\ Len(Meant') > 1 /\ Meant'[Len(Meant')] = [part |-> "newline", of |-> entry]
           /\ Single(Meant) /\ (Meant = << >> \/ Ended(Meant)) /\ entry.kind # "header" => Single(Meant')
           /\ \A s : Told(Meant, s) => Told(Meant', s)
           /\ Ended(Meant) /\ entry.kind = "span" => Told(Meant', entry.step)
  <1>1. file \in Texts /\ Meant = file
    BY NothingToWrite DEF Typed
  <1>2. Meant' = file \o Line(entry)
    BY DEF Meant
  <1>3. LineMore(file, entry, Meant') /\ writing' \in Texts
    BY <1>1, <1>2, LineAdded, LineFacts
  <1> HIDE DEF Meant
  <1> QED  BY <1>1, <1>3, LineMoreFacts

LEMMA WritePieceFacts ==
    ASSUME Typed, WritePiece
    PROVE  /\ file' \in Texts /\ writing' \in Texts /\ Meant' = Meant
           /\ Living /\ UNCHANGED <<disk, child, caller, reading, outcome>>
           /\ \A s : Told(file, s) => Told(file', s)
           /\ Len(file') = Len(file) + 1 /\ \A k \in 1..Len(file) : file'[k] = file[k]
  <1>1. /\ writing # << >> /\ file' = Append(file, Head(writing)) /\ writing' = Tail(writing)
        /\ Living /\ UNCHANGED <<disk, child, caller, reading, outcome>>
    BY DEF WritePiece, ParentWaits
  <1>2. file \in Texts /\ writing \in Texts
    BY DEF Typed
  <1>3. Meant' = Meant
    BY <1>1, <1>2, WritingFacts DEF Meant
  <1>4. file' = file \o << Head(writing) >> /\ << Head(writing) >> \in Texts
    BY <1>1, <1>2, WritingFacts
  <1>5. \A s : Told(file, s) => Told(file', s)
    BY <1>2, <1>4, BeginningFacts
  <1>6. /\ file' \in Texts /\ writing' \in Texts
        /\ Len(file') = Len(file) + 1 /\ \A k \in 1..Len(file) : file'[k] = file[k]
    BY <1>1, <1>2, WritingFacts
  <1> QED  BY <1>1, <1>3, <1>5, <1>6

LEMMA EndedFacts ==
    ASSUME IsEnded
    PROVE  /\ Killed /\ Living /\ writing' = << >>
           /\ UNCHANGED <<file, disk, reading, outcome>>
           /\ caller' \in {caller, "killed"}
  BY DEF IsEnded, Crash, TimeUp, ParentWaits

LEMMA QuietFacts ==
    ASSUME Typed, ChildIs(child), Lines, ChildQuietly \/ StopBegins
    PROVE  /\ UNCHANGED <<file, writing, disk, reading, outcome>> /\ Living
           /\ child'.run = child.run
           /\ child'.step = child.step \/ child'.step = 0
           /\ caller' \in {caller, "grace"}
           /\ child'.pc \in {"dead", "spawned", "listening"} => writing = << >>
           /\ child'.pc \in {"spawned", "listening"} => child.pc \in {"spawned", "listening"}
           /\ child'.pc \in {"running", "between"} => child.pc \in {"running", "between"}
  <1> USE DEF Typed, Children, ParentWaits
  <1>1. CASE Deliver
    <2>1. CASE child.pc = "spawned"
      <3>1. Fresh(child', "dead", child.run, "signal")
        BY <1>1, <2>1, KilledFacts DEF Deliver, Handled
      <3> QED  BY <1>1, <2>1, <3>1 DEF Deliver, Lines, Fresh
    <2>2. CASE child.pc # "spawned"
      BY <1>1, <2>2 DEF Deliver, Handled, Living, Lines
    <2> QED  BY <2>1, <2>2
  <1>2. CASE Interrupt
    BY <1>2 DEF Interrupt, Living, Lines
  <1>3. CASE StopBegins
    BY <1>3 DEF StopBegins, Living, Lines
  <1>4. CASE Listen \/ NextBatch
    BY <1>4 DEF Listen, NextBatch, At, Goes, Living
  <1>5. CASE HasNothingToDo \/ IsUnavailable
    BY <1>5 DEF HasNothingToDo, IsUnavailable, At, Living
  <1>6. CASE ChildRaises \/ Leaves
    BY <1>6 DEF ChildRaises, Leaves, At, Living
  <1>7. CASE Exit
    BY <1>7 DEF Exit, At, Living
  <1> QED  BY <1>1, <1>2, <1>3, <1>4, <1>5, <1>6, <1>7 DEF ChildQuietly

(* What a step, a save, the end of a span, closing and the last word write. *)
PutsOne(entry) ==
    /\ entry \in Entries /\ entry.kind # "header"
    /\ writing = << >> /\ file' = file /\ writing' = Line(entry)
    /\ UNCHANGED <<caller, reading, outcome>>
    /\ child.pc \in {"running", "between", "closing", "ending"}
    /\ child'.pc \notin {"dead", "spawned", "listening"} /\ child'.run = child.run
    /\ disk' \in {disk, child.step}
    /\ \/ child'.step = child.step
       \/ /\ child'.step = child.step + 1 /\ child.pc = "running"
          /\ entry.kind = "span" /\ entry.step = child.step + 1

LEMMA PutsFacts ==
    ASSUME Typed, ChildIs(child), ChildPuts
    PROVE  \E entry \in Entries : PutsOne(entry)
  <1> USE DEF Typed, Children, ParentWaits, At, Goes, PutsOne
  <1>1. CASE Step
    <2>1. child.run \in 0..MaxRuns /\ child.step + 1 \in 0..MaxSteps
      BY <1>1, BoundsFacts DEF Step
    <2> DEFINE entry == Span(child.run, child.step + 1)
    <2>2. entry \in Entries /\ entry.kind = "span" /\ entry.step = child.step + 1
      BY <2>1, EntryFacts DEF Span, Entry
    <2>3. /\ child.pc = "running" /\ writing = << >> /\ file' = file /\ writing' = Line(entry)
          /\ UNCHANGED <<caller, reading, outcome>> /\ disk' = disk
          /\ child'.pc = "between" /\ child'.run = child.run /\ child'.step = child.step + 1
      BY <1>1 DEF Step
    <2> HIDE DEF entry
    <2> QED  BY <2>2, <2>3
  <1>2. CASE Save
    <2> DEFINE entry == Mark(child.run, child.step)
    <2>1. entry \in Entries /\ entry.kind # "header"
      BY EntryFacts DEF Mark, Entry
    <2>2. /\ child.pc = "between" /\ writing = << >> /\ file' = file /\ writing' = Line(entry)
          /\ UNCHANGED <<caller, reading, outcome, child>> /\ disk' = child.step
      BY <1>2 DEF Save
    <2> HIDE DEF entry
    <2> QED  BY <2>1, <2>2
  <1>3. CASE UsedUp
    <2> DEFINE entry == Note(child.run, "span")
    <2>1. entry \in Entries /\ entry.kind # "header"
      BY EntryFacts DEF Note, Entry, Events
    <2>2. /\ child.pc = "between" /\ writing = << >> /\ file' = file /\ writing' = Line(entry)
          /\ UNCHANGED <<caller, reading, outcome, disk>>
          /\ child'.pc = "closing" /\ child'.run = child.run /\ child'.step = child.step
      BY <1>3 DEF UsedUp
    <2> HIDE DEF entry
    <2> QED  BY <2>1, <2>2
  <1>4. CASE CloseSession
    <2> DEFINE entry == Note(child.run, "closed")
    <2>1. entry \in Entries /\ entry.kind # "header"
      BY EntryFacts DEF Note, Entry, Events
    <2>2. /\ child.pc = "closing" /\ writing = << >> /\ file' = file /\ writing' = Line(entry)
          /\ UNCHANGED <<caller, reading, outcome, disk>>
          /\ child'.pc \in {"ending", "exiting"} /\ child'.run = child.run
          /\ child'.step = child.step
      BY <1>4 DEF CloseSession
    <2> HIDE DEF entry
    <2> QED  BY <2>1, <2>2
  <1>5. CASE Finish
    <2> DEFINE x == IF child.raised = "none" THEN Said ELSE child.raised
               entry == Note(child.run, x)
    <2>0. child.pc = "ending"
      BY <1>5 DEF Finish
    <2>1. x \in Events
      BY <2>0 DEF Events, Reasons, Said, ChildIs
    <2> HIDE DEF x
    <2>2. entry \in Entries /\ entry.kind # "header"
      BY <2>1, EntryFacts DEF Note, Entry
    <2>3. /\ writing = << >> /\ file' = file /\ writing' = Line(entry)
          /\ UNCHANGED <<caller, reading, outcome, disk>>
          /\ child'.pc = "exiting" /\ child'.run = child.run /\ child'.step = child.step
      BY <1>5 DEF Finish, x
    <2> HIDE DEF entry
    <2> QED  BY <2>0, <2>2, <2>3
  <1> QED  BY <1>1, <1>2, <1>3, <1>4, <1>5 DEF ChildPuts

LEMMA ReapFacts ==
    ASSUME Reaps
    PROVE  /\ ~Living /\ Started /\ outcome = NoOutcome
           /\ reading' = CaughtUp(reading) /\ caller' = "free"
           /\ outcome' = [status |-> child.status, note |-> CaughtUp(reading).note]
           /\ UNCHANGED <<file, disk, child, writing>>
  BY DEF Reaps, Hears, Answered, Buried, Reap, ChildGoesOn

LEMMA IdleAtStart ==
    ASSUME Typed, ChildIs(child), Lines, Heard, Start
    PROVE  child.pc = "dead" /\ writing = << >>
  <1>1. child.run \in Nat
    BY DEF Typed, Children
  <1> QED  BY <1>1 DEF Start, Started, Heard, ChildIs, Lines

LEMMA SpawnedFacts ==
    ASSUME Typed, Start
    PROVE  /\ Fresh(child', "spawned", child.run + 1, "none") /\ (child.run + 1 > 1 \/ child.run = 0)
           /\ UNCHANGED <<file, disk, writing, caller>>
           /\ reading' = Unread /\ outcome' = NoOutcome
           /\ ~Started \/ outcome # NoOutcome
  BY StartFacts DEF Start, Typed, Children

LEMMA OpenFacts ==
    ASSUME OpenSession
    PROVE  /\ child.pc = "listening" /\ writing = << >> /\ child' = [child EXCEPT !.pc = "running", !.step = disk]
           /\ UNCHANGED <<disk, caller, reading, outcome>>
  BY DEF OpenSession, At, ParentWaits

-----------------------------------------------------------------------------
(* Every step keeps the invariant. *)

LEMMA LinesNext ==
    ASSUME Typed, ChildIs(child), Lines, Heard, Next
    PROVE  file' \in Texts /\ writing' \in Texts /\ disk' \in 0..MaxSteps /\ Lines'
  <1>1. file \in Texts /\ writing \in Texts /\ disk \in 0..MaxSteps /\ child.step \in 0..MaxSteps
    BY DEF Typed, Children
  <1>2. Formed(file) /\ \A s : Told(file, s) => Told(Meant, s)
    BY <1>1, BeginningFacts DEF Lines, Meant
  <1>3. CASE WritePiece
    <2>1. /\ file' \in Texts /\ writing' \in Texts /\ Meant' = Meant
          /\ Living /\ UNCHANGED <<disk, child>>
          /\ \A s : Told(file, s) => Told(file', s)
      BY <1>3, WritePieceFacts
    <2>2. writing # << >>
      BY <1>3 DEF WritePiece
    <2> QED  BY <1>1, <2>1, <2>2 DEF Lines
  <1>4. CASE IsEnded
    <2>1. Killed /\ Living /\ writing' = << >> /\ UNCHANGED <<file, disk>>
      BY <1>4, EndedFacts
    <2>2. Fresh(child', "dead", child.run, "signal") /\ << >> \in Texts
      BY <2>1, KilledFacts DEF Texts
    <2>3. Meant' = file
      BY <1>1, <2>1, <2>2, ConcatEmptySeq DEF Meant, Texts
    <2>4. 1..child'.step = {}
      BY <2>2 DEF Fresh
    <2> QED  BY <1>1, <1>2, <2>1, <2>2, <2>3, <2>4 DEF Lines, Fresh
  <1>5. CASE ChildQuietly \/ StopBegins
    <2>1. /\ UNCHANGED <<file, writing, disk>>
          /\ child'.step = child.step \/ child'.step = 0
          /\ child'.pc \in {"dead", "spawned", "listening"} => writing = << >>
          /\ child'.pc \in {"running", "between"} => child.pc \in {"running", "between"}
      BY <1>5, QuietFacts
    <2>2. Meant' = Meant
      BY <2>1 DEF Meant
    <2>3. 1..child'.step = 1..child.step \/ 1..child'.step = {}
      BY <2>1
    <2> QED  BY <1>1, <2>1, <2>2, <2>3 DEF Lines
  <1>6. CASE OpenSession
    <2>1. /\ file' = file /\ writing' \in Texts
          /\ Formed(Meant') /\ Ended(Meant')
          /\ \A s : Told(file, s) => Told(Meant', s)
      BY <1>2, <1>6, OpeningFacts
    <2>2. disk' = disk /\ child'.pc = "running" /\ child'.step = disk
      BY <1>6, OpenFacts DEF Typed, Children
    <2> QED  BY <1>1, <2>1, <2>2 DEF Lines
  <1>7. CASE ChildPuts
    <2>1. PICK entry \in Entries : PutsOne(entry)
      BY <1>7, PutsFacts
    <2>2. /\ writing' \in Texts /\ Meant = file /\ Formed(Meant') /\ Ended(Meant')
          /\ \A s : Told(Meant, s) => Told(Meant', s)
          /\ Ended(Meant) /\ entry.kind = "span" => Told(Meant', entry.step)
      BY <1>2, <2>1, PuttingFacts DEF PutsOne
    <2>3. disk' \in 0..MaxSteps /\ \A s \in 1..disk' : Told(file', s)
      BY <1>1, <2>1, <2>2 DEF PutsOne, Lines
    <2>4. ASSUME NEW s \in 1..child'.step
          PROVE  Told(Meant', s)
      <3>1. CASE child'.step = child.step
        BY <2>2, <3>1 DEF Lines
      <3>2. CASE /\ child'.step = child.step + 1 /\ child.pc = "running"
                 /\ entry.kind = "span" /\ entry.step = child.step + 1
        <4>1. s \in 1..child.step \/ s = entry.step
          BY <1>1, <3>2
        <4>2. Ended(Meant)
          BY <3>2 DEF Lines
        <4> QED  BY <2>2, <3>2, <4>1, <4>2 DEF Lines
      <3> QED  BY <2>1, <3>1, <3>2 DEF PutsOne
    <2> QED  BY <1>1, <2>1, <2>2, <2>3, <2>4 DEF Lines, PutsOne
  <1>8. CASE Start
    <2>1. Fresh(child', "spawned", child.run + 1, "none") /\ UNCHANGED <<file, disk, writing>>
      BY <1>8, StartFacts, SpawnedFacts
    <2>2. writing = << >>
      BY <1>8, IdleAtStart
    <2>3. Meant' = Meant /\ 1..child'.step = {}
      BY <2>1 DEF Meant, Fresh
    <2> QED  BY <1>1, <2>1, <2>2, <2>3 DEF Lines, Fresh
  <1>9. CASE Poll \/ Reaps
    <2>1. UNCHANGED <<file, disk, child, writing>>
      BY <1>9, ReapFacts DEF Poll, ChildGoesOn
    <2>2. Meant' = Meant
      BY <2>1 DEF Meant
    <2> QED  BY <1>1, <2>1, <2>2 DEF Lines
  <1> QED  BY <1>3, <1>4, <1>5, <1>6, <1>7, <1>8, <1>9, NextShape

LEMMA OneRunNext ==
    ASSUME Typed, ChildIs(child), Lines, Heard, OneRun, Next
    PROVE  OneRun'
  <1> SUFFICES ASSUME child'.run <= 1
               PROVE  /\ Single(Meant')
                      /\ Living' => Meant' = << >> \/ Ended(Meant')
                      /\ child'.run = 0 \/ child'.pc \in {"spawned", "listening"} => Meant' = << >>
    BY DEF OneRun, Living
  <1>1. file \in Texts /\ writing \in Texts /\ child.run \in Nat
    BY DEF Typed, Children
  <1>2. Formed(file) /\ (Single(Meant) => Single(file))
    BY <1>1, BeginningFacts DEF Lines, Meant
  <1>3. Living => child.run # 0
    BY DEF ChildIs, Living
  <1>4. CASE WritePiece
    <2>1. Meant' = Meant /\ UNCHANGED child
      BY <1>4, WritePieceFacts
    <2> QED  BY <2>1 DEF OneRun, Living
  <1>5. CASE IsEnded
    <2>1. Killed /\ Living /\ writing' = << >> /\ UNCHANGED file
      BY <1>5, EndedFacts
    <2>2. Fresh(child', "dead", child.run, "signal")
      BY <2>1, KilledFacts
    <2>3. Meant' = file
      BY <1>1, <2>1, ConcatEmptySeq DEF Meant, Texts
    <2> QED  BY <1>2, <1>3, <2>1, <2>2, <2>3 DEF Fresh, OneRun, Living
  <1>6. CASE ChildQuietly \/ StopBegins
    <2>1. /\ UNCHANGED <<file, writing>> /\ Living /\ child'.run = child.run
          /\ child'.pc \in {"spawned", "listening"} => child.pc \in {"spawned", "listening"}
      BY <1>6, QuietFacts
    <2>2. Meant' = Meant
      BY <2>1 DEF Meant
    <2> QED  BY <1>3, <2>1, <2>2 DEF OneRun, Living
  <1>7. CASE OpenSession
    <2>1. Single(file) /\ file = << >> => Single(Meant')
      BY <1>2, <1>7, OpeningFacts
    <2>2. Ended(Meant')
      BY <1>2, <1>7, OpeningFacts
    <2>3. /\ child.pc = "listening" /\ writing = << >> /\ child'.pc = "running"
          /\ child'.run = child.run
      BY <1>7, OpenFacts DEF Typed, Children
    <2>4. Meant = file
      BY <1>1, <2>3, NothingToWrite
    <2> QED  BY <1>2, <1>3, <2>1, <2>2, <2>3, <2>4 DEF OneRun, Living
  <1>8. CASE ChildPuts
    <2>1. PICK entry \in Entries : PutsOne(entry)
      BY <1>8, PutsFacts
    <2>2. Ended(Meant') /\ (Single(Meant) /\ (Meant = << >> \/ Ended(Meant)) => Single(Meant'))
      BY <1>2, <2>1, PuttingFacts DEF PutsOne
    <2>3. /\ child.pc \in {"running", "between", "closing", "ending"} /\ child'.run = child.run
          /\ child'.pc \notin {"dead", "spawned", "listening"}
      BY <2>1 DEF PutsOne
    <2> QED  BY <1>3, <2>2, <2>3 DEF OneRun, Living
  <1>9. CASE Start
    <2>1. Fresh(child', "spawned", child.run + 1, "none") /\ UNCHANGED <<file, writing>>
      BY <1>9, StartFacts, SpawnedFacts
    <2>2. child.run = 0
      BY <1>1, <2>1 DEF Fresh
    <2>3. Meant' = Meant
      BY <2>1 DEF Meant
    <2> QED  BY <2>2, <2>3 DEF OneRun
  <1>10. CASE Poll \/ Reaps
    <2>1. UNCHANGED <<file, child, writing>>
      BY <1>10, ReapFacts DEF Poll, ChildGoesOn
    <2>2. Meant' = Meant
      BY <2>1 DEF Meant
    <2> QED  BY <2>1, <2>2 DEF OneRun, Living
  <1> QED  BY <1>4, <1>5, <1>6, <1>7, <1>8, <1>9, <1>10, NextShape

LEMMA LastWordNext ==
    ASSUME Typed, ChildIs(child), Lines, Heard, LastWord(child, Meant), Next
    PROVE  LastWord(child', Meant')
  <1>1. file \in Texts /\ writing \in Texts /\ child \in Children
    BY DEF Typed
  <1>2. Formed(file)
    BY <1>1, BeginningFacts DEF Lines, Meant
  <1>3. CASE WritePiece
    <2>1. Meant' = Meant /\ child' = child
      BY <1>3, WritePieceFacts
    <2> QED  BY <2>1
  <1>4. CASE IsEnded
    <2>1. Fresh(child', "dead", child.run, "signal")
      BY <1>4, EndedFacts, KilledFacts
    <2> QED  BY <2>1 DEF Fresh, LastWord
  <1>5. CASE ChildQuietly \/ StopBegins
    <2>1. Meant' = Meant /\ Living /\ child'.run = child.run
      BY <1>5, QuietFacts DEF Meant
    <2>2. \/ child'.pc \notin {"exiting", "dead"}
          \/ child'.raised = "left"
          \/ child'.pc = "dead" /\ child'.status = "signal"
          \/ /\ child.pc = "exiting" /\ child'.raised = child.raised /\ child'.used = child.used
             /\ child.stopping => child'.stopping
      <3> USE <1>1 DEF Children
      <3>1. CASE Deliver
        <4>1. CASE child.pc = "spawned"
          <5>1. Fresh(child', "dead", child.run, "signal")
            BY <3>1, <4>1, KilledFacts DEF Deliver, Handled
          <5> QED  BY <5>1 DEF Fresh
        <4>2. CASE child.pc # "spawned"
          BY <3>1, <4>2 DEF Deliver, Handled, Living
        <4> QED  BY <4>1, <4>2
      <3>2. CASE Interrupt
        BY <3>2 DEF Interrupt, Living
      <3>3. CASE StopBegins
        BY <3>3 DEF StopBegins, Living
      <3>4. CASE Listen \/ NextBatch
        BY <3>4 DEF Listen, NextBatch, At, Goes
      <3>5. CASE HasNothingToDo \/ IsUnavailable
        BY <3>5 DEF HasNothingToDo, IsUnavailable, At
      <3>6. CASE ChildRaises \/ Leaves
        BY <3>6 DEF ChildRaises, Leaves, At
      <3>7. CASE Exit
        BY <3>7 DEF Exit, At
      <3> QED  BY <1>5, <3>1, <3>2, <3>3, <3>4, <3>5, <3>6, <3>7 DEF ChildQuietly
    <2> HIDE DEF Meant
    <2> QED  BY <2>1, <2>2 DEF LastWord
  <1>6. CASE OpenSession
    <2>1. child'.pc = "running"
      BY <1>1, <1>6, OpenFacts DEF Children
    <2> QED  BY <2>1 DEF LastWord
  <1>7. CASE Step \/ Save \/ UsedUp
    <2>1. child'.pc \in {"between", "closing"}
      BY <1>1, <1>7 DEF Step, Save, UsedUp, At, Children
    <2> QED  BY <2>1 DEF LastWord
  <1>8. CASE CloseSession
    <2>1. child'.pc = "ending" \/ child'.raised = "left"
      BY <1>1, <1>8 DEF CloseSession, Goes, Children
    <2> QED  BY <2>1 DEF LastWord
  <1>9. CASE Finish
    <2> DEFINE x == IF child.raised = "none" THEN Said ELSE child.raised
               entry == Note(child.run, x)
    <2>0. /\ child.pc = "ending" /\ writing = << >> /\ file' = file /\ writing' = Line(entry)
          /\ child'.run = child.run /\ child'.raised = child.raised
          /\ child'.used = child.used /\ child'.stopping = child.stopping
      BY <1>1, <1>9 DEF Finish, At, Goes, Children
    <2>1. /\ x \in Events
          /\ IF child.raised = "none"
             THEN (x = "finished" /\ child.used) \/ (x = "stopped" /\ child.stopping)
             ELSE x = child.raised
      BY <1>1, <2>0 DEF Events, Reasons, Said, ChildIs, Children
    <2> HIDE DEF x
    <2>2. entry \in Entries
      BY <1>1, <2>1, EntryFacts DEF Children
    <2> HIDE DEF entry
    <2>3. Len(Meant') > 1 /\ Meant'[Len(Meant')] = [part |-> "newline", of |-> entry]
      BY <1>2, <2>0, <2>2, PuttingFacts
    <2> QED  BY <2>0, <2>1, <2>3 DEF LastWord, entry
  <1>10. CASE Start
    <2>1. child'.pc = "spawned"
      BY <1>10, StartFacts DEF Fresh
    <2> QED  BY <2>1 DEF LastWord
  <1>11. CASE Poll \/ Reaps
    <2>1. UNCHANGED <<file, child, writing>>
      BY <1>11, ReapFacts DEF Poll, ChildGoesOn
    <2>2. Meant' = Meant
      BY <2>1 DEF Meant
    <2> QED  BY <2>1, <2>2
  <1> QED  BY <1>3, <1>4, <1>5, <1>6, <1>7, <1>8, <1>9, <1>10, <1>11, NextShape DEF ChildPuts

(* What was read of a file was read of what it has become. *)
LEMMA ReadOfMore ==
    ASSUME NEW f \in Texts, NEW g \in Texts, Len(f) <= Len(g),
           \A k \in 1..Len(f) : g[k] = f[k], NEW r, HasRead(r, f)
    PROVE  HasRead(r, g)
  <1> DEFINE o == r.offset
  <1>1. o \in 0..Len(f) /\ Len(f) \in Nat /\ Len(g) \in Nat
    BY DEF HasRead, Texts
  <1>2. o \in 0..Len(g)
    BY <1>1
  <1>3. /\ Upto(f, o) \in Texts /\ Len(Upto(f, o)) = o /\ \A k \in 1..o : Upto(f, o)[k] = f[k]
        /\ Upto(g, o) \in Texts /\ Len(Upto(g, o)) = o /\ \A k \in 1..o : Upto(g, o)[k] = g[k]
    BY <1>1, <1>2, UptoFacts
  <1>4. \A k \in 1..o : f[k] = g[k]
    BY <1>1
  <1>5. Upto(f, o) = Upto(g, o)
    BY <1>3, <1>4, SeqEqual DEF Texts
  <1> QED  BY <1>2, <1>5 DEF HasRead

LEMMA ReadNext ==
    ASSUME Typed, ChildIs(child), Lines, Heard, HasRead(reading, file), Next
    PROVE  HasRead(reading', file') /\ Heard'
  <1>1. file \in Texts /\ Formed(file) /\ child.run \in Nat
    BY BeginningFacts DEF Typed, Lines, Meant, Children
  <1>2. Living /\ outcome' = outcome => Heard'
    BY DEF Heard, Living
  <1>3. CASE WritePiece
    <2>1. file' \in Texts /\ Len(file') = Len(file) + 1 /\ \A k \in 1..Len(file) : file'[k] = file[k]
      BY <1>3, WritePieceFacts
    <2>2. Len(file) <= Len(file')
      BY <1>1, <2>1 DEF Texts
    <2>3. HasRead(reading, file')
      BY <1>1, <2>1, <2>2, ReadOfMore
    <2>4. reading' = reading /\ Living /\ outcome' = outcome
      BY <1>3, WritePieceFacts
    <2> QED  BY <1>2, <2>3, <2>4
  <1>4. CASE IsEnded \/ ChildQuietly \/ StopBegins
    <2>1. UNCHANGED <<file, reading, outcome>> /\ Living
      BY <1>4, EndedFacts, QuietFacts
    <2> QED  BY <1>2, <2>1
  <1>5. CASE OpenSession
    <2>1. UNCHANGED <<reading, outcome>> /\ Living
      BY <1>5, OpenFacts DEF Living
    <2>2. file' = file
      BY <1>5 DEF OpenSession, Opened
    <2> QED  BY <1>2, <2>1, <2>2
  <1>6. CASE ChildPuts
    <2>1. PICK entry \in Entries : PutsOne(entry)
      BY <1>6, PutsFacts
    <2>2. UNCHANGED <<file, reading, outcome>> /\ Living
      BY <2>1 DEF PutsOne, Living
    <2> QED  BY <1>2, <2>2
  <1>7. CASE Start
    <2>1. file' = file /\ reading' = Unread /\ outcome' = NoOutcome
      BY <1>7, SpawnedFacts
    <2> QED  BY <1>1, <2>1, UnreadFacts DEF Heard
  <1>8. CASE Poll
    <2>1. reading' = CaughtUp(reading) /\ UNCHANGED <<file, child, outcome>>
      BY <1>8 DEF Poll, ChildGoesOn
    <2> QED  BY <1>1, <2>1, CaughtUpFacts DEF Heard
  <1>9. CASE Reaps
    <2>1. /\ ~Living /\ Started /\ reading' = CaughtUp(reading) /\ UNCHANGED <<file, child>>
          /\ outcome' = [status |-> child.status, note |-> CaughtUp(reading).note]
      BY <1>9, ReapFacts
    <2>2. CaughtUp(reading).note = LastOf(file, "note", Nothing) /\ HasRead(CaughtUp(reading), file)
      BY <1>1, CaughtUpFacts
    <2> QED  BY <2>1, <2>2 DEF Heard, Living, Started
  <1> QED  BY <1>3, <1>4, <1>5, <1>6, <1>7, <1>8, <1>9, NextShape

LEMMA CallerNext ==
    ASSUME Typed, ChildIs(child), Lines, Next
    PROVE  caller' \in {"free", "grace", "killed"}
  <1>1. CASE WritePiece \/ IsEnded \/ ChildQuietly \/ StopBegins \/ OpenSession
    BY <1>1, WritePieceFacts, EndedFacts, QuietFacts, OpenFacts DEF Typed
  <1>2. CASE ChildPuts
    BY <1>2, PutsFacts DEF PutsOne, Typed
  <1>3. CASE Start \/ Poll \/ Reaps
    BY <1>3, ReapFacts DEF Start, Poll, Typed
  <1> QED  BY <1>1, <1>2, <1>3, NextShape

LEMMA NextIInv == IInv /\ [Next]_vars => IInv'
  <1> SUFFICES ASSUME IInv, [Next]_vars
               PROVE  IInv'
    OBVIOUS
  <1>1. /\ Typed /\ ChildIs(child) /\ Lines /\ OneRun /\ LastWord(child, Meant)
        /\ HasRead(reading, file) /\ Heard
    BY DEF IInv
  <1>2. CASE Next
    <2>1. child' \in Children /\ ChildIs(child')
      BY <1>1, <1>2, ChildTyped
    <2>2. file' \in Texts /\ writing' \in Texts /\ disk' \in 0..MaxSteps /\ Lines'
      BY <1>1, <1>2, LinesNext
    <2>3. OneRun'
      BY <1>1, <1>2, OneRunNext
    <2>4. LastWord(child', Meant')
      BY <1>1, <1>2, LastWordNext
    <2>5. HasRead(reading', file') /\ Heard'
      BY <1>1, <1>2, ReadNext
    <2>6. caller' \in {"free", "grace", "killed"}
      BY <1>1, <1>2, CallerNext
    <2> QED  BY <2>1, <2>2, <2>3, <2>4, <2>5, <2>6 DEF IInv, Typed
  <1>3. CASE UNCHANGED vars
    BY <1>1, <1>3 DEF vars, IInv, Typed, Lines, OneRun, Meant, Living, Heard
  <1> QED  BY <1>2, <1>3

(* The journal, the checkpoint, the child and the reading fit together at  *)
(* every point of any number of runs in the directory.                     *)
THEOREM Invariance == Spec => []IInv
  <1>1. Init => IInv
    BY InitIInv
  <1>2. IInv /\ [Next]_vars => IInv'
    BY NextIInv
  <1> QED  BY <1>1, <1>2, PTL DEF Spec

(* Every variable stays in its type, and what is not read is not there.    *)
THEOREM TypeCorrect == Spec => []TypeOK
  <1>1. IInv => TypeOK
    <2> SUFFICES ASSUME IInv
                 PROVE  TypeOK
      OBVIOUS
    <2>1. /\ file \in Texts /\ disk \in 0..MaxSteps /\ child \in Children
          /\ caller \in {"free", "grace", "killed"}
      BY DEF IInv, Typed
    <2>2. HasRead(reading, file) /\ Heard
      BY DEF IInv
    <2>3. Upto(file, reading.offset) \in Texts /\ reading.offset \in 0..Len(file)
      BY <2>1, <2>2, UptoFacts DEF HasRead
    <2>4. reading.span \in Entries /\ reading.note \in Entries
      BY <2>2, <2>3, EntryFacts, LastOfIsAnEntry DEF HasRead
    <2>5. outcome.note \in Entries
      BY <2>1, <2>2, EntryFacts, LastOfIsAnEntry DEF Heard, NoOutcome
    <2>6. \A k \in DOMAIN file : file[k].of \in Entries /\ file[k].part \in {"text", "newline"}
      <3>1. DOMAIN file = 1..Len(file)
        BY <2>1 DEF Texts
      <3> QED  BY <2>1, <3>1, PieceFacts
    <2>7. /\ child.run \in 0..MaxRuns /\ child.step \in 0..MaxSteps
          /\ child.status \in {"none", "ok", "failed", "unavailable", "left", "signal"}
      BY <2>1 DEF Children, Statuses
    <2> QED  BY <2>1, <2>3, <2>4, <2>5, <2>6, <2>7 DEF TypeOK
  <1> QED  BY <1>1, Invariance, PTL

(* However a parent's polls fall between the pieces of a child's lines,    *)
(* reading what was appended finds what reading the whole file would.      *)
THEOREM WhatIsReadIsTheFile == Spec => []ReadingIsTheFile
  <1>1. IInv => ReadingIsTheFile
    BY DEF IInv, HasRead, ReadingIsTheFile, Upto
  <1> QED  BY <1>1, Invariance, PTL

(* Wherever the one run in a directory is killed, its journal reads back,  *)
(* if its header is there.                                                 *)
LEMMA InterruptedReads ==
    ASSUME IInv, child.run = 1, Len(file) >= 2, file[2].of = Header(1)
    PROVE  ReadsBack(file)
  <1> DEFINE e == EndOfLines(file)  kept == Whole(file)
  <1>1. file \in Texts /\ writing \in Texts /\ Formed(Meant) /\ Single(Meant)
    BY DEF IInv, Typed, Lines, OneRun
  <1>2. Formed(file) /\ Single(file)
    BY <1>1, BeginningFacts DEF Meant
  <1>3. Len(file) \in Nat /\ 2 \in 1..Len(file) /\ 1 \in 1..Len(file)
    BY <1>1 DEF Texts
  <1>4. file[2].part = "newline"
    <2>1. file[2].part = "text" => file[1].part = "newline"
      BY <1>2, <1>3 DEF Single
    <2>2. file[1].part = "newline" => 1 > 1
      BY <1>2, <1>3 DEF Formed
    <2>3. file[2].part \in {"text", "newline"}
      BY <1>1, <1>3, PieceFacts
    <2> QED  BY <2>1, <2>2, <2>3
  <1>5. /\ e \in 0..Len(file) /\ (e > 0 => file[e].part = "newline")
        /\ \A k \in 1..Len(file) : file[k].part = "newline" => k <= e
    BY <1>1, EndOfLinesFacts
  <1> HIDE DEF e
  <1>6. e \in Nat /\ e >= 2 /\ e <= Len(file) /\ file[e].part = "newline"
    BY <1>3, <1>4, <1>5
  <1>7. /\ kept \in Texts /\ Len(kept) = e /\ \A k \in 1..e : kept[k] = file[k]
    <2>1. kept = Upto(file, e)
      BY DEF Whole, Upto, e
    <2> QED  BY <1>1, <1>5, <2>1, UptoFacts
  <1> HIDE DEF kept
  <1>8. DOMAIN kept = 1..e
    BY <1>7 DEF Texts
  <1>9. kept # << >> /\ e \in Ends(kept)
    BY <1>6, <1>7, <1>8 DEF Ends
  <1>10. EndOfLines(kept) = e
    <2>1. e \in 0..Len(kept) /\ kept[e].part = "newline"
      BY <1>6, <1>7
    <2>2. \A k \in 1..Len(kept) : kept[k].part = "newline" => k <= e
      BY <1>6, <1>7
    <2> QED  BY <1>7, <2>1, <2>2, EndOfLinesIs
  <1>11. ASSUME NEW k \in Ends(kept)
         PROVE  Parses(kept, k) /\ (kept[k].of.kind = "header" <=> k = 2)
    <2>1. k \in 1..e /\ kept[k] = file[k] /\ file[k].part = "newline" /\ k \in 1..Len(file)
      BY <1>6, <1>7, <1>8 DEF Ends
    <2>2. k > 1 /\ file[k - 1] = [part |-> "text", of |-> file[k].of]
      BY <1>2, <2>1 DEF Formed
    <2>3. k > 2 => k - 1 \in 1..Len(file) /\ k - 2 \in 1..e /\ (k - 1) - 1 = k - 2 /\ k - 1 # 1
      BY <1>6, <2>1
    <2>4. k > 2 => file[k - 2].part = "newline"
      <3> SUFFICES ASSUME k > 2
                   PROVE  file[k - 2].part = "newline"
        OBVIOUS
      <3>1. file[k - 1].part = "text" => k - 1 = 1 \/ file[(k - 1) - 1].part = "newline"
        BY <1>2, <2>3 DEF Single
      <3>2. file[(k - 1) - 1].part = "newline"
        BY <2>2, <2>3, <3>1
      <3> QED  BY <2>3, <3>2
    <2>5. k > 2 => kept[k - 2].part = "newline"
      BY <1>7, <2>3, <2>4
    <2>6. k > 2 => file[k].of.kind # "header"
      BY <1>2, <2>1 DEF Single
    <2>7. file[2].of.kind = "header"
      BY DEF Header, Entry
    <2>8. k = 2 \/ k > 2
      BY <2>1, <2>2
    <2> QED  BY <2>1, <2>2, <2>5, <2>6, <2>7, <2>8 DEF Parses
  <1> QED  BY <1>7, <1>9, <1>10, <1>11 DEF ReadsBack, kept

THEOREM AnInterruptedJournalReads == Spec => []InterruptedJournalReads
  <1>1. IInv => InterruptedJournalReads
    BY InterruptedReads DEF InterruptedJournalReads
  <1> QED  BY <1>1, Invariance, PTL

(* Every step a checkpoint holds has a line that parses, though any number *)
(* of runs were cut short and the next one's first line glued to theirs.   *)
THEOREM EveryStepIsTold == Spec => []StepsAreTold
  <1>1. IInv => StepsAreTold
    <2> SUFFICES ASSUME IInv, NEW s \in 1..disk
                 PROVE  \E k \in Ends(file) : Parses(file, k) /\ file[k].of.kind = "span"
                                              /\ file[k].of.step = s
      BY DEF StepsAreTold
    <2>1. Told(file, s) /\ DOMAIN file = 1..Len(file)
      BY DEF IInv, Lines, Typed, Texts
    <2> QED  BY <2>1 DEF Told, Ends, Parses
  <1> QED  BY <1>1, Invariance, PTL

(* What a child that ended by itself says last is what the parent hears,   *)
(* and is true: the last line parses, because it is not glued, and it is   *)
(* the last note there is.                                                 *)
LEMMA HearsTheLastWord ==
    ASSUME IInv, outcome # NoOutcome, child.raised \in {"none", "failed", "unavailable"},
           outcome.status # "signal", ~Glued
    PROVE  \E x : /\ outcome = [status |-> child.status, note |-> Note(child.run, x)]
                  /\ IF child.raised = "none"
                     THEN (x = "finished" /\ child.used) \/ (x = "stopped" /\ child.stopping)
                     ELSE x = child.raised
  <1>1. /\ file \in Texts /\ writing = << >> /\ child.pc = "dead" /\ child.run > 0
        /\ outcome = [status |-> child.status, note |-> LastOf(file, "note", Nothing)]
        /\ LastWord(child, Meant) /\ Formed(Meant)
    BY DEF IInv, Typed, Lines, Heard
  <1>2. Meant = file /\ child.status # "signal"
    BY <1>1, NothingToWrite
  <1>3. PICK x \in Events :
           /\ Len(file) > 1 /\ file[Len(file)] = [part |-> "newline", of |-> Note(child.run, x)]
           /\ IF child.raised = "none"
              THEN (x = "finished" /\ child.used) \/ (x = "stopped" /\ child.stopping)
              ELSE x = child.raised
    BY <1>1, <1>2 DEF LastWord
  <1> DEFINE n == Len(file)
  <1>4. n \in Nat /\ n > 1 /\ DOMAIN file = 1..n /\ n \in 1..n /\ n - 1 \in 1..n
    BY <1>1, <1>3 DEF Texts
  <1>5. file[n - 1] = [part |-> "text", of |-> Note(child.run, x)]
    BY <1>1, <1>2, <1>3, <1>4 DEF Formed
  <1>6. n > 2 => file[n - 2].part = "newline"
    <2> SUFFICES ASSUME n > 2
                 PROVE  file[n - 2].part = "newline"
      OBVIOUS
    <2>1. x \in {"finished", "stopped", child.raised}
      BY <1>3
    <2>2. Note(child.run, x) \in {Note(child.run, y) : y \in {"finished", "stopped", child.raised}}
      BY <2>1
    <2>3. n - 1 \in DOMAIN file /\ n - 1 > 1 /\ (n - 1) - 1 = n - 2 /\ n - 2 \in 1..n
      BY <1>4
    <2>4. file[(n - 1) - 1].part # "text"
      BY <1>5, <2>2, <2>3 DEF Glued
    <2>5. file[n - 2].part \in {"text", "newline"}
      BY <1>1, <2>3, PieceFacts
    <2> QED  BY <2>3, <2>4, <2>5
  <1>7. n \in Usable(file, "note")
    <2>1. file[n].part = "newline" /\ file[n].of.kind = "note"
      BY <1>3 DEF Note, Entry
    <2> QED  BY <1>1, <1>4, <1>6, <2>1, UsableFacts
  <1>8. \A y \in Usable(file, "note") : n >= y
    BY <1>1, <1>4, UsableFacts
  <1>9. LastOf(file, "note", Nothing) = Note(child.run, x)
    BY <1>1, <1>3, <1>7, <1>8, LastOfIs
  <1> QED  BY <1>1, <1>3, <1>9

THEOREM TheOutcomeIsTrue == Spec => []OutcomeIsTrue
  <1>1. IInv => OutcomeIsTrue
    <2> SUFFICES ASSUME IInv, outcome # NoOutcome,
                        child.raised \in {"none", "failed", "unavailable"},
                        outcome.status # "signal", ~Glued
                 PROVE  /\ outcome.note.run = child.run
                        /\ outcome.status = "ok" => outcome.note.event \in {"finished", "stopped"}
                        /\ outcome.note.event = "finished" => child.used /\ outcome.status = "ok"
                        /\ outcome.note.event = "stopped" => child.stopping /\ outcome.status = "ok"
                        /\ outcome.status # "ok" => outcome.note.event = outcome.status
      BY DEF OutcomeIsTrue
    <2>1. PICK x : /\ outcome = [status |-> child.status, note |-> Note(child.run, x)]
                   /\ IF child.raised = "none"
                      THEN (x = "finished" /\ child.used) \/ (x = "stopped" /\ child.stopping)
                      ELSE x = child.raised
      BY HearsTheLastWord
    <2>2. outcome.status = child.status /\ outcome.note.run = child.run /\ outcome.note.event = x
      BY <2>1 DEF Note, Entry
    <2>3. child.pc = "dead" /\ child.run > 0
      BY DEF IInv, Heard
    <2>4. child.status = (IF child.raised = "none" THEN "ok" ELSE child.raised)
      BY <2>2, <2>3 DEF IInv, ChildIs
    <2> QED  BY <2>1, <2>2, <2>4
  <1> QED  BY <1>1, Invariance, PTL
=============================================================================
