------------------------- MODULE GDriveCache_proofs -------------------------
(***************************************************************************)
(* What the path cache of a Google Drive mount may be wrong about, for any *)
(* number of threads and any paths and files.                              *)
(*                                                                         *)
(* Drive.  What a request does to the places of files is proved of any two *)
(* trees d and e (Leads, Line): a file is at one path at most (OnePath), a *)
(* new one leaves every path as it is (NewFileKeeps), and a subtree that   *)
(* moves or goes changes only the paths below it (PathKept).  None of this *)
(* needs induction over paths: where a line of files first differs from    *)
(* another, or last leaves a folder, is the least such number              *)
(* (LeastNumber, from the library's fact that Nat is well founded).        *)
(*                                                                         *)
(* Typed.  A call goes the way its request asks for (Orderly), has the id  *)
(* of the folder it moves a file out of just when that is another than the *)
(* one it moves it into (Sourced), and has answers only about its own      *)
(* paths (NewsKnown).                                                      *)
(*                                                                         *)
(* Right.  As long as nothing went astray, every id that is held - in the  *)
(* cache, by a walk, for a call, in an answer - is at the path it is held  *)
(* for, or that path is unsettled.  A move may change what another thread  *)
(* holds, in whichever of its four places; each has its own conjunct, for  *)
(* the ids of an answer outlast the moment at which the path is forgotten, *)
(* and need a reason that lasts (Lasting).                                 *)
(***************************************************************************)
EXTENDS GDriveCache, SequenceTheorems, WellFoundedInduction, TLAPS

-----------------------------------------------------------------------------
(* Paths, name by name.                                                    *)

Strings == Seq(STRING)

LEMMA PathsAreStrings ==
    /\ \A p \in Paths : p \in Strings /\ p # <<>>
    /\ <<>> \in Strings
  BY PathsAssumption DEF Strings

LEMMA LengthOf ==
    ASSUME NEW p \in Strings
    PROVE  Len(p) \in Nat /\ (p # <<>> => Len(p) > 0)
  BY LenProperties, EmptySeq DEF Strings

(* The first n names of a path.                                            *)
LEMMA CutByName ==
    ASSUME NEW p \in Strings, NEW n \in 0..Len(p)
    PROVE  /\ SubSeq(p, 1, n) \in Strings /\ Len(SubSeq(p, 1, n)) = n
           /\ \A k \in 1..n : SubSeq(p, 1, n)[k] = p[k]
  <1>1. Len(p) \in Nat /\ n \in Nat /\ n <= Len(p)
    BY LengthOf
  <1>2. \A k \in 1..n : p[k] \in STRING
    BY <1>1, ElementOfSeq DEF Strings
  <1>3. /\ SubSeq(p, 1, n) \in Seq(STRING)
        /\ Len(SubSeq(p, 1, n)) = IF 1 <= n THEN n - 1 + 1 ELSE 0
        /\ \A k \in 1..(n - 1 + 1) : SubSeq(p, 1, n)[k] = p[1 + k - 1]
    BY <1>1, <1>2, SubSeqProperties, Z3
  <1> QED BY <1>1, <1>3 DEF Strings

LEMMA SameNames ==
    ASSUME NEW p \in Strings, NEW q \in Strings, Len(p) = Len(q),
           \A k \in 1..Len(p) : p[k] = q[k]
    PROVE  p = q
  BY SeqEqual DEF Strings

LEMMA WholeCut == ASSUME NEW p \in Strings PROVE SubSeq(p, 1, Len(p)) = p
  BY SubSeqFull DEF Strings

LEMMA CutOfCut ==
    ASSUME NEW p \in Strings, NEW n \in 0..Len(p), NEW m \in 0..n
    PROVE  SubSeq(SubSeq(p, 1, n), 1, m) = SubSeq(p, 1, m)
  <1>1. Len(p) \in Nat /\ m \in 0..Len(p)
    BY LengthOf
  <1>2. /\ SubSeq(p, 1, n) \in Strings /\ Len(SubSeq(p, 1, n)) = n
        /\ \A k \in 1..n : SubSeq(p, 1, n)[k] = p[k]
    BY CutByName
  <1>3. /\ SubSeq(p, 1, m) \in Strings /\ Len(SubSeq(p, 1, m)) = m
        /\ \A k \in 1..m : SubSeq(p, 1, m)[k] = p[k]
    BY <1>1, CutByName
  <1>4. /\ SubSeq(SubSeq(p, 1, n), 1, m) \in Strings
        /\ Len(SubSeq(SubSeq(p, 1, n), 1, m)) = m
        /\ \A k \in 1..m : SubSeq(SubSeq(p, 1, n), 1, m)[k] = SubSeq(p, 1, n)[k]
    BY <1>2, CutByName
  <1> QED BY <1>1, <1>2, <1>3, <1>4, SameNames

LEMMA FrontIs ==
    ASSUME NEW p \in Strings, p # <<>>
    PROVE  /\ Len(p) \in Nat \ {0}
           /\ S!Front(p) = SubSeq(p, 1, Len(p) - 1) /\ S!Front(p) \in Strings
           /\ Len(S!Front(p)) = Len(p) - 1
           /\ \A k \in 1..(Len(p) - 1) : S!Front(p)[k] = p[k]
           /\ S!Last(p) = p[Len(p)]
  <1>1. Len(p) \in Nat /\ Len(p) - 1 \in 0..Len(p)
    BY LengthOf
  <1> QED BY <1>1, CutByName DEF S!Front, S!Last

LEMMA PrefixByName ==
    ASSUME NEW m \in Strings, NEW p \in Strings
    PROVE  /\ S!IsPrefix(m, p) <=> Len(m) <= Len(p) /\ \A k \in 1..Len(m) : m[k] = p[k]
           /\ S!IsPrefix(m, p) => SubSeq(p, 1, Len(m)) = m
  <1>1. Len(m) \in Nat /\ Len(p) \in Nat /\ SubSeq(m, 1, Len(m)) = m
    BY LengthOf, WholeCut
  <1>2. CASE Len(m) <= Len(p)
    <2>1. /\ SubSeq(p, 1, Len(m)) \in Strings /\ Len(SubSeq(p, 1, Len(m))) = Len(m)
          /\ \A k \in 1..Len(m) : SubSeq(p, 1, Len(m))[k] = p[k]
      BY <1>1, <1>2, CutByName
    <2>2. m = SubSeq(p, 1, Len(m)) <=> \A k \in 1..Len(m) : m[k] = p[k]
      BY <2>1, SameNames
    <2> QED BY <1>1, <1>2, <2>2 DEF S!IsPrefix
  <1>3. CASE ~(Len(m) <= Len(p))
    BY <1>3 DEF S!IsPrefix
  <1> QED BY <1>2, <1>3

LEMMA CutIsPrefix ==
    ASSUME NEW p \in Strings, NEW n \in 0..Len(p)
    PROVE  S!IsPrefix(SubSeq(p, 1, n), p)
  <1> DEFINE q == SubSeq(p, 1, n)
  <1>1. q \in Strings /\ Len(q) = n /\ \A k \in 1..n : q[k] = p[k]
    BY CutByName
  <1>2. n <= Len(p)
    BY LengthOf
  <1> HIDE DEF q
  <1>3. S!IsPrefix(q, p)
    BY <1>1, <1>2, PrefixByName
  <1> QED BY <1>3 DEF q

LEMMA PrefixTransitive ==
    ASSUME NEW a \in Strings, NEW b \in Strings, NEW p \in Strings,
           S!IsPrefix(a, b), S!IsPrefix(b, p)
    PROVE  S!IsPrefix(a, p)
  <1>1. Len(a) \in Nat /\ Len(b) \in Nat /\ Len(p) \in Nat
    BY LengthOf
  <1>2. Len(a) <= Len(b) /\ \A k \in 1..Len(a) : a[k] = b[k]
    BY PrefixByName
  <1>3. Len(b) <= Len(p) /\ \A k \in 1..Len(b) : b[k] = p[k]
    BY PrefixByName
  <1>4. Len(a) <= Len(p) /\ \A k \in 1..Len(a) : a[k] = p[k]
    BY <1>1, <1>2, <1>3
  <1> QED BY <1>4, PrefixByName

(* A path's front is above it, and what lies above that strictly above.    *)
LEMMA AboveFront ==
    ASSUME NEW m \in Strings, NEW p \in Strings, p # <<>>, S!IsPrefix(m, S!Front(p))
    PROVE  S!IsStrictPrefix(m, p)
  <1>1. /\ Len(p) \in Nat \ {0} /\ S!Front(p) \in Strings /\ Len(S!Front(p)) = Len(p) - 1
        /\ \A k \in 1..(Len(p) - 1) : S!Front(p)[k] = p[k]
    BY FrontIs
  <1>2. Len(m) \in Nat /\ Len(m) <= Len(p) - 1 /\ \A k \in 1..Len(m) : m[k] = S!Front(p)[k]
    BY <1>1, LengthOf, PrefixByName
  <1>3. Len(m) <= Len(p) /\ \A k \in 1..Len(m) : m[k] = p[k]
    BY <1>1, <1>2
  <1>4. S!IsPrefix(m, p)
    BY <1>3, PrefixByName
  <1>5. m # p
    BY <1>1, <1>2
  <1> QED BY <1>4, <1>5 DEF S!IsStrictPrefix

(* What is cut after n + 1 names.                                          *)
LEMMA CutFront ==
    ASSUME NEW p \in Strings, NEW n \in Nat, n < Len(p)
    PROVE  /\ SubSeq(p, 1, n + 1) \in Strings /\ SubSeq(p, 1, n + 1) # <<>>
           /\ S!Front(SubSeq(p, 1, n + 1)) = SubSeq(p, 1, n)
           /\ S!Last(SubSeq(p, 1, n + 1)) = p[n + 1]
  <1> DEFINE q == SubSeq(p, 1, n + 1)
  <1>1. Len(p) \in Nat /\ n + 1 \in 0..Len(p) /\ n \in 0..(n + 1)
    BY LengthOf
  <1>2. q \in Strings /\ Len(q) = n + 1 /\ \A k \in 1..(n + 1) : q[k] = p[k]
    BY <1>1, CutByName
  <1>3. SubSeq(q, 1, n) = SubSeq(p, 1, n)
    BY <1>1, CutOfCut
  <1>4. q # <<>>
    BY <1>2
  <1> HIDE DEF q
  <1>5. n + 1 - 1 = n /\ n + 1 \in 1..(n + 1)
    OBVIOUS
  <1>6. S!Front(q) = SubSeq(p, 1, n) /\ S!Last(q) = p[n + 1]
    BY <1>2, <1>3, <1>5 DEF S!Front, S!Last
  <1> QED BY <1>2, <1>4, <1>6 DEF q
-----------------------------------------------------------------------------
(* Where files are, in a Drive d: the Drive of a state or of the next.     *)

(* j is a live file in i under a name.                                     *)
ChildOf(d, j, i, name) ==
    j \in Ids /\ d[j].kind \in {"file", "folder"} /\ d[j].parent = i /\ d[j].name = name

Line(d, line, p) ==
    /\ line \in [0..Len(p) -> Ids \cup {Root}] /\ line[0] = Root
    /\ \A k \in 1..Len(p) : ChildOf(d, line[k], line[k - 1], p[k])

Leads(d, i, p) == \E line : Line(d, line, p) /\ line[Len(p)] = i

LEMMA AtLeads == \A i, p : At(i, p) <=> Leads(drive, i, p)
  <1>1. \A i, j, name : j \in Children(i, name) <=> ChildOf(drive, j, i, name)
    BY IdsAssumption DEF Children, ChildOf, Live
  <1> QED BY <1>1 DEF At, Leads, Line

LEMMA AtLeadsNext == \A i, p : At(i, p)' <=> Leads(drive', i, p)
  <1>1. \A i, j, name : (j \in Children(i, name))' <=> ChildOf(drive', j, i, name)
    BY IdsAssumption DEF Children, ChildOf, Live
  <1> QED BY <1>1 DEF At, Leads, Line

LEMMA RootLeads == ASSUME NEW d PROVE \A i : Leads(d, i, <<>>) <=> i = Root
  <1>1. ASSUME NEW i, Leads(d, i, <<>>) PROVE i = Root
    BY <1>1 DEF Leads, Line
  <1>2. Leads(d, Root, <<>>)
    <2> DEFINE line == [k \in 0..0 |-> Root]
    <2>1. Line(d, line, <<>>) /\ line[0] = Root
      BY DEF Line
    <2> QED BY <2>1 DEF Leads
  <1> QED BY <1>1, <1>2

(* Every file of a line is where the line has come to.                     *)
LEMMA LineCut ==
    ASSUME NEW d, NEW p \in Strings, NEW line, Line(d, line, p), NEW n \in 0..Len(p)
    PROVE  Leads(d, line[n], SubSeq(p, 1, n))
  <1> DEFINE q == SubSeq(p, 1, n)
             cut == [k \in 0..n |-> line[k]]
  <1>1. Len(p) \in Nat /\ n \in Nat /\ n <= Len(p)
    BY LengthOf
  <1>2. Len(q) = n /\ \A k \in 1..n : q[k] = p[k]
    BY CutByName
  <1> HIDE DEF q
  <1>3. cut \in [0..n -> Ids \cup {Root}] /\ cut[0] = Root /\ cut[n] = line[n]
    BY <1>1 DEF Line
  <1>4. \A k \in 1..n : cut[k] = line[k] /\ cut[k - 1] = line[k - 1]
    BY <1>1
  <1>5. \A k \in 1..n : ChildOf(d, line[k], line[k - 1], p[k])
    BY <1>1 DEF Line
  <1>6. Line(d, cut, q)
    BY <1>2, <1>3, <1>4, <1>5 DEF Line
  <1> HIDE DEF cut
  <1> QED BY <1>2, <1>3, <1>6 DEF Leads, q

(* A file is at a path when it has the last name in a file at the front,   *)
(* and only then.                                                          *)
LEMMA ChildLeads ==
    ASSUME NEW d, NEW p \in Strings, p # <<>>, NEW i, NEW j,
           Leads(d, i, S!Front(p)), ChildOf(d, j, i, S!Last(p))
    PROVE  Leads(d, j, p)
  <1>1. /\ Len(p) \in Nat \ {0} /\ Len(S!Front(p)) = Len(p) - 1
        /\ \A k \in 1..(Len(p) - 1) : S!Front(p)[k] = p[k]
        /\ S!Last(p) = p[Len(p)]
    BY FrontIs
  <1>2. PICK line : Line(d, line, S!Front(p)) /\ line[Len(p) - 1] = i
    BY <1>1 DEF Leads
  <1> DEFINE longer == [k \in 0..Len(p) |-> IF k = Len(p) THEN j ELSE line[k]]
  <1>3. /\ line \in [0..(Len(p) - 1) -> Ids \cup {Root}] /\ line[0] = Root
        /\ \A k \in 1..(Len(p) - 1) : ChildOf(d, line[k], line[k - 1], p[k])
    BY <1>1, <1>2 DEF Line
  <1>4. longer \in [0..Len(p) -> Ids \cup {Root}] /\ longer[0] = Root /\ longer[Len(p)] = j
    BY <1>1, <1>3 DEF ChildOf
  <1>5. ASSUME NEW k \in 1..Len(p) PROVE ChildOf(d, longer[k], longer[k - 1], p[k])
    <2>1. CASE k = Len(p)
      BY <1>1, <1>2, <2>1
    <2>2. CASE k # Len(p)
      <3>1. k \in 1..(Len(p) - 1) /\ longer[k] = line[k] /\ longer[k - 1] = line[k - 1]
        BY <1>1, <2>2
      <3> QED BY <1>3, <3>1
    <2> QED BY <2>1, <2>2
  <1> HIDE DEF longer
  <1>6. Line(d, longer, p)
    BY <1>4, <1>5 DEF Line
  <1> QED BY <1>4, <1>6 DEF Leads

LEMMA LeadsByChild ==
    ASSUME NEW d, NEW p \in Strings, p # <<>>, NEW j, Leads(d, j, p)
    PROVE  /\ ChildOf(d, j, d[j].parent, S!Last(p))
           /\ Leads(d, d[j].parent, S!Front(p))
  <1>1. /\ Len(p) \in Nat \ {0} /\ S!Front(p) = SubSeq(p, 1, Len(p) - 1)
        /\ S!Last(p) = p[Len(p)]
    BY FrontIs
  <1>2. PICK line : Line(d, line, p) /\ line[Len(p)] = j
    BY DEF Leads
  <1>3. ChildOf(d, j, line[Len(p) - 1], S!Last(p))
    BY <1>1, <1>2 DEF Line
  <1>4. Len(p) - 1 \in 0..Len(p)
    BY <1>1
  <1>5. Leads(d, line[Len(p) - 1], S!Front(p))
    BY <1>1, <1>2, <1>4, LineCut
  <1> QED BY <1>3, <1>5 DEF ChildOf

(* Induction on natural numbers, as the least one of a set.                *)
LEMMA LeastNumber ==
    ASSUME NEW T, T \subseteq Nat, T # {}
    PROVE  \E n \in T : \A m \in T : n <= m
  <1>1. \E R : IsWellFoundedOn(R, Nat) /\ \A x, y \in Nat : x < y => <<x, y>> \in R
    <2> DEFINE R == OpToRel(<, Nat)
    <2>1. IsWellFoundedOn(R, Nat)
      BY NatLessThanWellFounded
    <2>2. \A x, y \in Nat : x < y => <<x, y>> \in R
      BY DEF OpToRel
    <2> HIDE DEF R
    <2> QED BY <2>1, <2>2
  <1>2. PICK R : IsWellFoundedOn(R, Nat) /\ \A x, y \in Nat : x < y => <<x, y>> \in R
    BY <1>1
  <1>3. \E x \in T : \A y \in T : <<y, x>> \notin R
    <2>1. IsWellFoundedOn(R, Nat)
      BY <1>2
    <2> QED BY <2>1, WFMin
  <1>4. PICK x \in T : \A y \in T : <<y, x>> \notin R
    BY <1>3
  <1>5. ASSUME NEW y \in T PROVE x <= y
    <2>1. x \in Nat /\ y \in Nat
      OBVIOUS
    <2>2. ~(y < x)
      BY <1>2, <1>4, <2>1
    <2> QED BY <2>1, <2>2
  <1> QED BY <1>5

(* A file is at one path.                                                  *)
LEMMA OnePath ==
    ASSUME NEW d, NEW i, NEW p \in Strings, NEW q \in Strings,
           Leads(d, i, p), Leads(d, i, q)
    PROVE  p = q
  <1> DEFINE T == {n \in Nat : \E a, b \in Strings : Len(a) = n /\ a # b
                        /\ \E j : Leads(d, j, a) /\ Leads(d, j, b)}
  <1>1. SUFFICES T = {}
    <2>1. Len(p) \in Nat
      BY LengthOf
    <2> QED BY <2>1
  <1>2. SUFFICES ASSUME T # {} PROVE FALSE
    OBVIOUS
  <1>3. T \subseteq Nat
    OBVIOUS
  <1>4. PICK n \in T : \A m \in T : n <= m
    <2> HIDE DEF T
    <2> QED BY <1>2, <1>3, LeastNumber
  <1>5. PICK a \in Strings, b \in Strings :
            \E j : Len(a) = n /\ a # b /\ Leads(d, j, a) /\ Leads(d, j, b)
    BY <1>4
  <1>6. PICK j : Len(a) = n /\ a # b /\ Leads(d, j, a) /\ Leads(d, j, b)
    BY <1>5
  <1>7. a # <<>> /\ b # <<>>
    <2>1. ASSUME NEW c \in Strings, c # <<>>, Leads(d, j, c) PROVE j # Root
      BY <2>1, LeadsByChild, IdsAssumption DEF ChildOf
    <2>2. Leads(d, j, <<>>) => j = Root
      BY RootLeads
    <2> QED BY <1>6, <2>1, <2>2
  <1>8. /\ Len(a) \in Nat \ {0} /\ S!Front(a) \in Strings /\ Len(S!Front(a)) = Len(a) - 1
        /\ \A k \in 1..(Len(a) - 1) : S!Front(a)[k] = a[k]
        /\ S!Last(a) = a[Len(a)]
    BY <1>7, FrontIs
  <1>9. /\ Len(b) \in Nat \ {0} /\ S!Front(b) \in Strings /\ Len(S!Front(b)) = Len(b) - 1
        /\ \A k \in 1..(Len(b) - 1) : S!Front(b)[k] = b[k]
        /\ S!Last(b) = b[Len(b)]
    BY <1>7, FrontIs
  <1>10. /\ S!Last(a) = S!Last(b)
        /\ Leads(d, d[j].parent, S!Front(a)) /\ Leads(d, d[j].parent, S!Front(b))
    <2>1. /\ ChildOf(d, j, d[j].parent, S!Last(a))
          /\ Leads(d, d[j].parent, S!Front(a))
      BY <1>6, <1>7, LeadsByChild
    <2>2. /\ ChildOf(d, j, d[j].parent, S!Last(b))
          /\ Leads(d, d[j].parent, S!Front(b))
      BY <1>6, <1>7, LeadsByChild
    <2> QED BY <2>1, <2>2 DEF ChildOf
  <1>11. S!Front(a) = S!Front(b)
    <2>1. S!Front(a) # S!Front(b) => Len(S!Front(a)) \in T
      BY <1>8, <1>9, <1>10
    <2> HIDE DEF T
    <2> QED BY <1>4, <1>6, <1>8, <2>1
  <1>12. Len(a) = Len(b) /\ \A k \in 1..Len(a) : a[k] = b[k]
    <2>1. Len(a) = Len(b)
      BY <1>8, <1>9, <1>11
    <2>2. ASSUME NEW k \in 1..Len(a) PROVE a[k] = b[k]
      <3>1. k \in 1..(Len(a) - 1) \/ k = Len(a)
        BY <1>8
      <3> QED BY <1>8, <1>9, <1>10, <1>11, <2>1, <3>1
    <2> QED BY <2>1, <2>2
  <1> QED BY <1>6, <1>12, SameNames

(* A line that meets no file that was changed leads there still.           *)
LEMMA LineKept ==
    ASSUME NEW d, NEW e, NEW p \in Strings, NEW line, Line(d, line, p),
           \A k \in 1..Len(p) : e[line[k]] = d[line[k]]
    PROVE  Leads(e, line[Len(p)], p)
  <1>1. Line(e, line, p)
    BY DEF Line, ChildOf
  <1> QED BY <1>1 DEF Leads
-----------------------------------------------------------------------------
(* What Drive's changes do to paths.                                       *)

(* What is in a folder that is at t is at paths below t.                   *)
LEMMA SubtreeBelow ==
    ASSUME NEW i \in Ids, NEW t \in Strings, Leads(drive, i, t),
           NEW j \in Subtree(i), NEW p \in Strings, Leads(drive, j, p)
    PROVE  S!IsPrefix(t, p)
  <1> DEFINE T == {m \in Ids : \A q \in Strings : Leads(drive, m, q) => S!IsPrefix(t, q)}
  <1>1. i \in T
    <2>1. Len(t) \in Nat /\ SubSeq(t, 1, Len(t)) = t
      BY LengthOf, WholeCut
    <2>2. S!IsPrefix(t, t)
      BY <2>1, PrefixByName
    <2> QED BY <2>2, OnePath
  <1>2. Closed(T)
    <2> SUFFICES ASSUME NEW m \in Ids, drive[m].parent \in T, NEW q \in Strings,
                        Leads(drive, m, q)
                 PROVE  S!IsPrefix(t, q)
      BY DEF Closed
    <2>1. q # <<>>
      BY RootLeads, IdsAssumption
    <2>2. Leads(drive, drive[m].parent, S!Front(q))
      BY <2>1, LeadsByChild
    <2>3. S!Front(q) \in Strings
      BY <2>1, FrontIs
    <2>4. S!IsPrefix(t, S!Front(q))
      BY <2>2, <2>3
    <2> QED BY <2>1, <2>4, AboveFront DEF S!IsStrictPrefix
  <1>3. T \subseteq Ids
    OBVIOUS
  <1>4. j \in T
    <2> HIDE DEF T
    <2> QED BY <1>1, <1>2, <1>3 DEF Subtree
  <1> QED BY <1>4

(* A line that meets a file leads to what is in it.                        *)
LEMMA LineInside ==
    ASSUME NEW p \in Strings, NEW line, Line(drive, line, p), NEW n \in 1..Len(p)
    PROVE  line[Len(p)] \in Subtree(line[n])
  <1>1. Len(p) \in Nat /\ n \in Nat /\ n >= 1
    BY LengthOf
  <1>2. \A k \in 1..Len(p) : /\ line[k] \in Ids /\ Live(line[k])
                             /\ drive[line[k]].parent = line[k - 1]
    BY DEF Line, ChildOf, Live
  <1>3. SUFFICES ASSUME NEW T \in SUBSET Ids, line[n] \in T, Closed(T)
                 PROVE  line[Len(p)] \in T
    BY <1>1, <1>2 DEF Subtree
  <1> DEFINE Out == {k \in Nat : k \in n..Len(p) /\ line[k] \notin T}
  <1>4. SUFFICES ASSUME Out # {} PROVE FALSE
    BY <1>1
  <1>5. PICK k \in Out : \A m \in Out : k <= m
    <2>1. Out \subseteq Nat
      OBVIOUS
    <2> HIDE DEF Out
    <2> QED BY <1>4, <2>1, LeastNumber
  <1>6. k # n /\ k \in n..Len(p) /\ line[k] \notin T /\ k - 1 \in Nat /\ k - 1 \in n..Len(p)
    BY <1>1, <1>3, <1>5
  <1>7. line[k - 1] \in T
    BY <1>1, <1>5, <1>6
  <1>8. k \in 1..Len(p)
    BY <1>1, <1>6
  <1> QED BY <1>2, <1>3, <1>6, <1>7, <1>8 DEF Closed

(* A file keeps its path while no file on the way there is changed.        *)
LEMMA PathKept ==
    ASSUME NEW i, NEW p \in Strings, At(i, p), NEW X,
           \A j \in Ids \ X : Live(j) => drive'[j] = drive[j],
           \A n \in 1..Len(p), j \in X : ~Leads(drive, j, SubSeq(p, 1, n))
    PROVE  At(i, p)'
  <1>1. PICK line : Line(drive, line, p) /\ line[Len(p)] = i
    BY AtLeads DEF Leads
  <1>2. Len(p) \in Nat
    BY LengthOf
  <1>3. ASSUME NEW k \in 1..Len(p) PROVE drive'[line[k]] = drive[line[k]]
    <2>1. Leads(drive, line[k], SubSeq(p, 1, k))
      BY <1>1, <1>2, LineCut
    <2>2. line[k] \in Ids /\ Live(line[k])
      BY <1>1 DEF Line, ChildOf, Live
    <2> QED BY <2>1, <2>2
  <1>4. Leads(drive', i, p)
    BY <1>1, <1>3, LineKept
  <1> QED BY <1>4, AtLeadsNext

(* A change of files that have no path disturbs no path.                   *)
LEMMA NewFileKeeps ==
    ASSUME NEW i \in Ids, drive[i] = Unborn,
           \A j \in Ids \ {i} : drive'[j] = drive[j],
           NEW j, NEW p \in Strings, At(j, p)
    PROVE  At(j, p)'
  <1>1. \A n \in 1..Len(p) : ~Leads(drive, i, SubSeq(p, 1, n))
    <2> SUFFICES ASSUME NEW n \in 1..Len(p), Leads(drive, i, SubSeq(p, 1, n)) PROVE FALSE
      OBVIOUS
    <2>1. Len(p) \in Nat /\ n \in 0..Len(p)
      BY LengthOf
    <2>2. SubSeq(p, 1, n) \in Strings /\ Len(SubSeq(p, 1, n)) = n
      BY <2>1, CutByName
    <2>3. SubSeq(p, 1, n) # <<>>
      BY <2>1, <2>2
    <2>4. drive[i].kind \in {"file", "folder"}
      BY <2>2, <2>3, LeadsByChild DEF ChildOf
    <2> QED BY <2>4 DEF Unborn, Gone
  <1> QED BY <1>1, PathKept

(* A file that is moved or removed at t takes with it the paths from t on. *)
LEMMA MovedPath ==
    ASSUME NEW i \in Ids, NEW t \in Strings, At(i, t),
           NEW X, X = {i} \/ X = Subtree(i),
           \A j \in Ids \ X : drive'[j] = drive[j],
           NEW j, NEW p \in Strings, At(j, p), ~S!IsPrefix(t, p)
    PROVE  At(j, p)'
  <1>1. Leads(drive, i, t)
    BY AtLeads
  <1>2. i \in Subtree(i)
    BY DEF Subtree
  <1>3. ASSUME NEW n \in 1..Len(p), NEW m \in X, Leads(drive, m, SubSeq(p, 1, n))
        PROVE  FALSE
    <2>1. Len(p) \in Nat /\ n \in 0..Len(p)
      BY LengthOf
    <2>2. SubSeq(p, 1, n) \in Strings /\ S!IsPrefix(SubSeq(p, 1, n), p)
      BY <2>1, CutByName, CutIsPrefix
    <2>3. S!IsPrefix(t, SubSeq(p, 1, n))
      BY <1>1, <1>2, <1>3, <2>2, SubtreeBelow
    <2> QED BY <2>2, <2>3, PrefixTransitive
  <1> QED BY <1>3, PathKept
-----------------------------------------------------------------------------
(* The inductive invariant.                                                *)

Walking(c) ==
    \/ pc[c] \in {"whole", "look", "ask"}
    \/ pc[c] = "remember" /\ stage[c] # "done"

(* A call goes the way its request asks for, and has resolved the folder   *)
(* it moves a file out of when that is not the one it moves it into.       *)
Orderly(c) ==
    /\ pc[c] = "idle" <=> req[c] = NoCall
    /\ pc[c] \in {"whole", "look", "ask"} => stage[c] \in Stages
    /\ pc[c] \in {"call", "idle", "writing"} => stage[c] = "done"
    /\ Walking(c) => depth[c] <= Len(Wanted(c))
    /\ pc[c] = "ask" => depth[c] < Len(Wanted(c))
    /\ req[c].op = "rename" /\ (stage[c] = "parent" \/ pc[c] = "call") =>
          ids[c]["source"] # NoId \/ S!Front(req[c].path) = S!Front(req[c].to)

(* It starts with no id, and resolves that folder for nothing else.        *)
Sourced(c) ==
    /\ pc[c] \in {"idle", "writing"} => ids[c] = NoIds
    /\ stage[c] = "source" \/ ids[c]["source"] # NoId =>
          S!Front(req[c].path) # S!Front(req[c].to)

(* What a call is about to write in the cache is about its own paths, and  *)
(* what it is about to forget is the path it moved.                        *)
NewsKnown(c) ==
    \A p \in Paths : news[c][p] # Keep =>
        /\ pc[c] = "remember" /\ About(c, p)
        /\ news[c][p] = NoId => p \in moved /\ p = req[c].path /\ stage[c] = "done"

Typed == TypeOK /\ \A c \in Callers : Orderly(c) /\ Sourced(c) /\ NewsKnown(c)

-----------------------------------------------------------------------------
(* What the callers keep, and what a step of one of them does to it.       *)

PCs == {"idle", "writing", "whole", "look", "ask", "call", "remember"}

Shaped ==
    /\ pc \in [Callers -> PCs]
    /\ req \in [Callers -> Requests \cup {NoCall}]
    /\ stage \in [Callers -> Stages \cup {"done"}]
    /\ depth \in [Callers -> Nat]
    /\ cur \in [Callers -> Ids \cup {Root}]
    /\ ids \in [Callers -> [Stages -> Ids \cup {Root, NoId}]]
    /\ news \in [Callers -> [Paths -> Ids \cup {NoId, Keep}]]

Shared ==
    /\ drive \in [Ids -> Nodes] /\ connected \in BOOLEAN
    /\ cache \in [Paths -> Ids \cup {NoId}] /\ calls \in 0..MaxCalls
    /\ moved \subseteq Paths /\ crossed \subseteq moved /\ astray \in BOOLEAN

LEMMA TypeParts == TypeOK <=> Shaped /\ Shared
  BY DEF TypeOK, Shaped, Shared, PCs

Same(c) ==
    /\ pc'[c] = pc[c] /\ req'[c] = req[c] /\ stage'[c] = stage[c] /\ depth'[c] = depth[c]
    /\ cur'[c] = cur[c] /\ ids'[c] = ids[c] /\ news'[c] = news[c]

OthersSame(c) == \A d \in Callers \ {c} : Same(d)

LEMMA ReturnIs ==
    ASSUME Shaped, NEW c \in Callers, Return(c), UNCHANGED news
    PROVE  /\ Shaped' /\ OthersSame(c)
           /\ pc'[c] = "idle" /\ req'[c] = NoCall /\ stage'[c] = "done" /\ depth'[c] = 0
           /\ cur'[c] = Root /\ ids'[c] = NoIds /\ news'[c] = news[c]
  BY DEF Shaped, Return, Goto, Same, OthersSame, PCs, NoIds, Stages

LEMMA AdvanceIs ==
    ASSUME Shaped, NEW c \in Callers, NEW n \in Nat, NEW id \in Ids \cup {Root},
           Advance(c, n, id), NEW label \in PCs, Goto(c, label), UNCHANGED news
    PROVE  /\ Shaped' /\ OthersSame(c)
           /\ pc'[c] = label /\ depth'[c] = n /\ cur'[c] = id /\ req'[c] = req[c]
           /\ stage'[c] = stage[c] /\ ids'[c] = ids[c] /\ news'[c] = news[c]
  BY DEF Shaped, Advance, Goto, Same, OthersSame

LEMMA GotoIs ==
    ASSUME Shaped, NEW c \in Callers, NEW label \in PCs, Goto(c, label),
           UNCHANGED <<req, walk>>, news' \in [Callers -> [Paths -> Ids \cup {NoId, Keep}]],
           \A d \in Callers \ {c} : news'[d] = news[d]
    PROVE  /\ Shaped' /\ OthersSame(c)
           /\ pc'[c] = label /\ depth'[c] = depth[c] /\ cur'[c] = cur[c]
           /\ req'[c] = req[c] /\ stage'[c] = stage[c] /\ ids'[c] = ids[c]
  BY DEF Shaped, Goto, Same, OthersSame, walk

LEMMA ResolvedIs ==
    ASSUME Shaped, NEW c \in Callers, NEW id \in Ids \cup {Root, NoId},
           stage[c] \in Stages, Resolved(c, id), UNCHANGED news
    PROVE  /\ Shaped' /\ OthersSame(c)
           /\ req'[c] = req[c] /\ depth'[c] = 0 /\ cur'[c] = Root /\ news'[c] = news[c]
           /\ stage'[c] = Following(c, stage[c])
           /\ stage'[c] \in Stages \cup {"done"}
           /\ pc'[c] = IF stage'[c] = "done" THEN "call" ELSE "whole"
           /\ ids'[c][stage[c]] = id
           /\ \A s \in Stages \ {stage[c]} : ids'[c][s] = ids[c][s]
  <1>1. Following(c, stage[c]) \in Stages \cup {"done"}
    BY DEF Following, Stages
  <1>2. ids' \in [Callers -> [Stages -> Ids \cup {Root, NoId}]]
        /\ ids'[c][stage[c]] = id
        /\ \A s \in Stages \ {stage[c]} : ids'[c][s] = ids[c][s]
        /\ \A d \in Callers \ {c} : ids'[d] = ids[d]
    BY DEF Shaped, Resolved
  <1> QED BY <1>1, <1>2 DEF Shaped, Resolved, Resolving, Goto, Same, OthersSame, PCs

(* The callers that make no step stay orderly.                             *)
LEMMA OneCallerSteps ==
    ASSUME Typed, NEW c \in Callers, Shaped', Shared', OthersSame(c), moved \subseteq moved',
           Orderly(c)', Sourced(c)', NewsKnown(c)'
    PROVE  Typed'
  <1>1. ASSUME NEW d \in Callers \ {c} PROVE Orderly(d)' /\ Sourced(d)' /\ NewsKnown(d)'
    <2>1. Same(d)
      BY DEF OthersSame
    <2>2. Orderly(d) /\ Sourced(d) /\ NewsKnown(d)
      BY DEF Typed
    <2>3. Orderly(d)'
      BY <2>1, <2>2 DEF Same, Orderly, Walking, Wanted, PathAt
    <2>4. Sourced(d)'
      BY <2>1, <2>2 DEF Same, Sourced
    <2>5. NewsKnown(d)'
      BY <2>1, <2>2 DEF Same, NewsKnown, About
    <2> QED BY <2>3, <2>4, <2>5
  <1>2. TypeOK'
    BY DEF Shaped, Shared, TypeOK, PCs
  <1> QED BY <1>1, <1>2 DEF Typed

(* A call that is under way keeps its source.                              *)
LEMMA SourcedStill ==
    ASSUME Typed, NEW c \in Callers, pc'[c] \notin {"idle", "writing"},
           req'[c] = req[c], stage'[c] = stage[c], ids'[c] = ids[c]
    PROVE  Sourced(c)'
  BY DEF Typed, Sourced

(* A caller that waits for nothing has nothing to write.                   *)
LEMMA NoNewsIsKnown ==
    ASSUME NEW c \in Callers, news[c] = NoNews
    PROVE  NewsKnown(c)
  BY DEF NewsKnown, NoNews

LEMMA FrontIsPath == \A p \in Paths \cup {<<>>} : S!Front(p) \in Paths \cup {<<>>}
  <1>1. S!Front(<<>>) = <<>>
    <2>1. Len(<<>>) - 1 < 1
      BY EmptySeq
    <2> QED BY <2>1, SubSeqEmpty, EmptySeq DEF S!Front
  <1>2. ASSUME NEW p \in Paths PROVE S!Front(p) \in Paths \cup {<<>>}
    <2>1. S!Front(p) = SubSeq(p, 1, Len(p) - 1)
      BY DEF S!Front
    <2>0. Len(p) \in Nat \ {0}
      BY PathsAreStrings, FrontIs
    <2>2. CASE Len(p) = 1
      <3>1. S!Front(p) = <<>>
        BY <2>1, <2>2, SubSeqEmpty
      <3> QED BY <3>1
    <2>3. CASE Len(p) # 1
      <3>1. Len(p) - 1 \in 1..Len(p)
        BY <2>0, <2>3
      <3> QED BY <2>1, <3>1, PathsAssumption
    <2> QED BY <2>2, <2>3
  <1> QED BY <1>1, <1>2

LEMMA PathAtIsPath ==
    ASSUME Typed, NEW c \in Callers, pc[c] # "idle", NEW s \in Stages
    PROVE  PathAt(c, s) \in Paths \cup {<<>>} /\ PathAt(c, s) \in Strings
  <1>1. req[c] \in Requests
    BY DEF Typed, Orderly, TypeOK
  <1>2. req[c].path \in Paths \cup {<<>>} /\ req[c].to \in Paths \cup {<<>>}
    BY <1>1 DEF Requests
  <1>3. PathAt(c, s) \in Paths \cup {<<>>}
    BY <1>2, FrontIsPath DEF PathAt, Stages
  <1> QED BY <1>3, PathsAreStrings

(* The next path a walk looks up.                                          *)
LEMMA BuiltIsPath ==
    ASSUME Typed, NEW c \in Callers, Walking(c), depth[c] < Len(Wanted(c))
    PROVE  /\ Built(c) \in Paths
           /\ S!Front(Built(c)) = SubSeq(Wanted(c), 1, depth[c])
           /\ depth[c] + 1 \in 1..Len(Wanted(c))
  <1>1. pc[c] # "idle" /\ stage[c] \in Stages /\ depth[c] \in Nat
    BY DEF Typed, Orderly, Walking, TypeOK
  <1>2. Wanted(c) \in Paths \cup {<<>>} /\ Wanted(c) \in Strings
    BY <1>1, PathAtIsPath DEF Wanted
  <1>3. Len(Wanted(c)) \in Nat /\ depth[c] + 1 \in 1..Len(Wanted(c))
    BY <1>1, <1>2, LengthOf
  <1>4. Wanted(c) # <<>>
    BY <1>3, EmptySeq
  <1>5. Built(c) \in Paths
    BY <1>2, <1>3, <1>4, PathsAssumption DEF Built
  <1>6. S!Front(Built(c)) = SubSeq(Wanted(c), 1, depth[c])
    BY <1>1, <1>2, CutFront DEF Built
  <1> QED BY <1>3, <1>5, <1>6
-----------------------------------------------------------------------------
(* Every step keeps the types, and the order of the calls.                 *)

LEMMA AsideShared ==
    ASSUME Shared, UNCHANGED aside
    PROVE  Shared' /\ moved \subseteq moved'
  BY DEF Shared, aside, history

LEMMA BeginTyped ==
    ASSUME Typed, NEW c \in Callers, NEW r \in Requests, Begin(c, r)
    PROVE  Typed'
  <1>1. /\ Shaped /\ Shared /\ Orderly(c) /\ NewsKnown(c) /\ pc[c] = "idle"
        /\ calls < MaxCalls /\ ids[c] = NoIds
    BY TypeParts DEF Typed, Sourced, Begin
  <1>2. Shared' /\ moved \subseteq moved'
    BY <1>1, CallsAssumption DEF Begin, Shared, history
  <1>3. stage[c] = "done" /\ r # NoCall
    BY <1>1 DEF Orderly, Requests, NoCall
  <1>4. news'[c] = news[c] /\ \A p \in Paths : news[c][p] = Keep
    BY <1>1 DEF NewsKnown, Begin
  <1>5. CASE r.op = "put"
    <2>1. /\ Shaped' /\ OthersSame(c) /\ pc'[c] = "writing" /\ req'[c] = r
          /\ stage'[c] = "done" /\ ids'[c] = NoIds
      BY <1>1, <1>3, <1>5 DEF Begin, Shaped, Goto, Same, OthersSame, PCs
    <2>2. Orderly(c)'
      BY <1>3, <1>5, <2>1 DEF Orderly, Walking
    <2>3. NewsKnown(c)'
      BY <1>4, <2>1 DEF NewsKnown
    <2>4. Sourced(c)'
      BY <2>1 DEF Sourced, NoIds, Stages
    <2> QED BY <1>1, <1>2, <2>1, <2>2, <2>3, <2>4, OneCallerSteps
  <1>6. CASE r.op # "put"
    <2>1. PICK s \in {"parent", "target"} :
              Resolving(c, s) /\ (s = "parent" => r.op = "mkdir")
      BY <1>6 DEF Begin
    <2>2. /\ Shaped' /\ OthersSame(c) /\ pc'[c] = "whole" /\ req'[c] = r
          /\ stage'[c] = s /\ depth'[c] = 0 /\ ids'[c] = ids[c]
      BY <1>1, <1>6, <2>1
      DEF Begin, Shaped, Resolving, Goto, Same, OthersSame, PCs, Stages
    <2>3. Wanted(c)' \in Strings
      <3>1. r.path \in Paths \cup {<<>>} /\ r.to \in Paths \cup {<<>>}
        BY DEF Requests
      <3>2. Wanted(c)' \in Paths \cup {<<>>}
        BY <2>1, <2>2, <3>1, FrontIsPath DEF Wanted, PathAt
      <3> QED BY <3>2, PathsAreStrings
    <2>4. Len(Wanted(c)') \in Nat
      BY <2>3, LengthOf
    <2>5. Orderly(c)'
      BY <1>3, <2>1, <2>2, <2>4 DEF Orderly, Walking, Stages
    <2>6. NewsKnown(c)'
      BY <1>4, <2>2 DEF NewsKnown
    <2>7. Sourced(c)'
      BY <1>1, <2>1, <2>2 DEF Sourced, NoIds, Stages
    <2> QED BY <1>1, <1>2, <2>2, <2>5, <2>6, <2>7, OneCallerSteps
  <1> QED BY <1>5, <1>6

LEMMA CloseTyped ==
    ASSUME Typed, NEW c \in Callers, Close(c)
    PROVE  Typed'
  <1>1. Shaped /\ Shared /\ Orderly(c) /\ NewsKnown(c) /\ pc[c] = "writing"
    BY TypeParts DEF Typed, Close
  <1>2. Shared' /\ moved \subseteq moved'
    BY <1>1 DEF Close, Shared, history
  <1>3. /\ Shaped' /\ OthersSame(c) /\ pc'[c] = "whole" /\ req'[c] = req[c]
        /\ stage'[c] = "target" /\ depth'[c] = 0 /\ ids'[c] = ids[c] /\ news'[c] = news[c]
    BY <1>1 DEF Close, Shaped, Resolving, Goto, Same, OthersSame, PCs, Stages
  <1>4. PathAt(c, "target") \in Strings
    BY <1>1, PathAtIsPath DEF Stages
  <1>5. Len(PathAt(c, "target")) \in Nat
    BY <1>4, LengthOf
  <1>6. Orderly(c)'
    BY <1>1, <1>3, <1>5 DEF Orderly, Walking, Wanted, PathAt, Stages
  <1>7. NewsKnown(c)'
    BY <1>1, <1>3 DEF NewsKnown
  <1>8. Sourced(c)'
    BY <1>3 DEF Typed, Sourced
  <1> QED BY <1>1, <1>2, <1>3, <1>6, <1>7, <1>8, OneCallerSteps

(* A walk ends with an id, or in a failure.                                *)
LEMMA ResolvedTyped ==
    ASSUME Typed, NEW c \in Callers, pc[c] \in {"look", "ask"},
           NEW id \in Ids \cup {Root, NoId}, Resolved(c, id), UNCHANGED <<aside, news>>,
           id = NoId => req[c].op = "put"
    PROVE  Typed'
  <1>1. Shaped /\ Shared /\ Orderly(c) /\ NewsKnown(c)
    BY TypeParts DEF Typed
  <1>2. Shared' /\ moved \subseteq moved'
    BY <1>1, AsideShared
  <1>3. stage[c] \in Stages
    BY <1>1 DEF Orderly
  <1>4. /\ Shaped' /\ OthersSame(c)
        /\ req'[c] = req[c] /\ depth'[c] = 0 /\ cur'[c] = Root /\ news'[c] = news[c]
        /\ stage'[c] = Following(c, stage[c])
        /\ stage'[c] \in Stages \cup {"done"}
        /\ pc'[c] = IF stage'[c] = "done" THEN "call" ELSE "whole"
        /\ ids'[c][stage[c]] = id
        /\ \A s \in Stages \ {stage[c]} : ids'[c][s] = ids[c][s]
    BY <1>1, <1>3, ResolvedIs
  <1>5. stage'[c] # "done" => Len(Wanted(c)') \in Nat
    <2>1. stage'[c] # "done" => PathAt(c, stage'[c]) \in Strings
      BY <1>4, PathAtIsPath
    <2> QED BY <1>4, <2>1, LengthOf DEF Wanted, PathAt
  <1>6. req[c].op = "rename" /\ (stage'[c] = "parent" \/ pc'[c] = "call") =>
            \/ ids'[c]["source"] # NoId
            \/ S!Front(req[c].path) = S!Front(req[c].to)
    <2> SUFFICES ASSUME req[c].op = "rename", stage'[c] = "parent" \/ pc'[c] = "call",
                        S!Front(req[c].path) # S!Front(req[c].to)
                 PROVE  ids'[c]["source"] # NoId
      OBVIOUS
    <2>1. CASE stage[c] = "source"
      BY <1>4, <2>1
    <2>2. CASE stage[c] = "parent"
      BY <1>1, <1>4, <2>2 DEF Orderly, Stages
    <2>3. CASE stage[c] = "target"
      BY <1>4, <2>3 DEF Following
    <2> QED BY <1>3, <2>1, <2>2, <2>3 DEF Stages
  <1>7. Orderly(c)'
    BY <1>1, <1>3, <1>4, <1>5, <1>6 DEF Orderly, Walking
  <1>8. NewsKnown(c)'
    BY <1>1, <1>4 DEF NewsKnown
  <1>9. Sourced(c)'
    <2>1. Sourced(c)
      BY DEF Typed
    <2>2. stage'[c] = "source" => S!Front(req[c].path) # S!Front(req[c].to)
      BY <1>3, <1>4 DEF Following
    <2> QED BY <1>3, <1>4, <2>1, <2>2 DEF Sourced, Stages
  <1> QED BY <1>1, <1>2, <1>4, <1>7, <1>8, <1>9, OneCallerSteps

LEMMA ReturnTyped ==
    ASSUME Typed, NEW c \in Callers, Return(c), UNCHANGED news,
           Shared', moved \subseteq moved',
           pc[c] = "remember" => news[c] = NoNews
    PROVE  Typed'
  <1>1. Shaped /\ NewsKnown(c)
    BY TypeParts DEF Typed
  <1>2. /\ Shaped' /\ OthersSame(c)
        /\ pc'[c] = "idle" /\ req'[c] = NoCall /\ stage'[c] = "done" /\ news'[c] = news[c]
        /\ ids'[c] = NoIds
    BY <1>1, ReturnIs
  <1>3. Orderly(c)'
    BY <1>2 DEF Orderly, Walking, NoCall
  <1>4. NewsKnown(c)'
    BY <1>1, <1>2 DEF NewsKnown, NoNews
  <1>5. Sourced(c)'
    BY <1>2 DEF Sourced, NoIds, Stages
  <1> QED BY <1>2, <1>3, <1>4, <1>5, OneCallerSteps

LEMMA WalkTyped ==
    ASSUME Typed, NEW c \in Callers,
           LookWhole(c) \/ Look(c) \/ QueryFails(c) \/ WalkEnds(c)
    PROVE  Typed'
  <1>1. Shaped /\ Shared /\ Orderly(c) /\ NewsKnown(c) /\ UNCHANGED <<aside, news>>
    BY TypeParts DEF Typed, LookWhole, Look, QueryFails, WalkEnds
  <1>2. Shared' /\ moved \subseteq moved' /\ news'[c] = news[c]
    BY <1>1, AsideShared
  <1>3. /\ Walking(c) /\ stage[c] \in Stages /\ pc[c] # "idle" /\ pc[c] # "remember"
        /\ pc[c] # "call" /\ depth[c] \in Nat /\ depth[c] <= Len(Wanted(c))
    BY <1>1 DEF Orderly, Walking, LookWhole, Look, QueryFails, WalkEnds, Shaped
  <1>4. Wanted(c) \in Paths \cup {<<>>} /\ Wanted(c) \in Strings
    BY <1>3, PathAtIsPath DEF Wanted
  <1>5. Len(Wanted(c)) \in Nat
    BY <1>4, LengthOf
  <1>6. ASSUME NEW n \in Nat, NEW id \in Ids \cup {Root}, n <= Len(Wanted(c)),
               Advance(c, n, id), Goto(c, "look")
        PROVE  Typed'
    <2>1. /\ Shaped' /\ OthersSame(c)
          /\ pc'[c] = "look" /\ depth'[c] = n /\ req'[c] = req[c]
          /\ stage'[c] = stage[c] /\ ids'[c] = ids[c]
      BY <1>1, <1>6, AdvanceIs DEF PCs
    <2>2. Orderly(c)'
      BY <1>1, <1>3, <1>6, <2>1 DEF Orderly, Walking, Wanted, PathAt
    <2>3. NewsKnown(c)'
      BY <1>1, <1>2, <1>3, <2>1 DEF NewsKnown
    <2>4. Sourced(c)'
      BY <2>1, SourcedStill
    <2> QED BY <1>2, <2>1, <2>2, <2>3, <2>4, OneCallerSteps
  <1>7. ASSUME NEW label \in {"look", "ask"}, Goto(c, label), UNCHANGED <<req, walk>>,
               label = "ask" => ~Walked(c)
        PROVE  Typed'
    <2>1. /\ Shaped' /\ OthersSame(c)
          /\ pc'[c] = label /\ depth'[c] = depth[c] /\ req'[c] = req[c]
          /\ stage'[c] = stage[c] /\ ids'[c] = ids[c]
      <3>1. news' \in [Callers -> [Paths -> Ids \cup {NoId, Keep}]] /\ label \in PCs
        BY <1>1 DEF Shaped, PCs
      <3> QED BY <1>1, <1>7, <3>1, GotoIs
    <2>2. label = "ask" => depth[c] < Len(Wanted(c))
      BY <1>3, <1>5, <1>7 DEF Walked
    <2>3. Orderly(c)'
      BY <1>1, <1>3, <2>1, <2>2 DEF Orderly, Walking, Wanted, PathAt
    <2>4. NewsKnown(c)'
      BY <1>1, <1>2, <1>3, <2>1 DEF NewsKnown
    <2>5. Sourced(c)'
      BY <2>1, SourcedStill
    <2> QED BY <1>2, <2>1, <2>3, <2>4, <2>5, OneCallerSteps
  <1>8. CASE LookWhole(c)
    <2>1. CASE Wanted(c) # <<>> /\ cache[Wanted(c)] # NoId
      <3>1. cache[Wanted(c)] \in Ids
        BY <1>1, <1>4, <2>1 DEF Shared
      <3> QED BY <1>5, <1>6, <1>8, <2>1, <3>1 DEF LookWhole
    <2>2. CASE ~(Wanted(c) # <<>> /\ cache[Wanted(c)] # NoId)
      BY <1>7, <1>8, <2>2 DEF LookWhole
    <2> QED BY <2>1, <2>2
  <1>9. CASE Look(c)
    <2>0. pc[c] = "look" /\ ~Walked(c)
      BY <1>9 DEF Look
    <2>1. depth[c] < Len(Wanted(c))
      BY <1>3, <1>5, <2>0 DEF Walked
    <2>2. CASE cache[Built(c)] # NoId
      <3>1. cache[Built(c)] \in Ids
        BY <1>1, <1>3, <2>1, <2>2, BuiltIsPath DEF Shared
      <3>2. Goto(c, "look")
        BY <1>1, <1>9, <2>0, <2>2 DEF Look, Goto, Shaped
      <3>3. depth[c] + 1 \in Nat /\ depth[c] + 1 <= Len(Wanted(c))
        BY <1>3, <1>5, <2>1
      <3> QED BY <1>6, <1>9, <2>2, <3>1, <3>2, <3>3 DEF Look
    <2>3. CASE cache[Built(c)] = NoId
      BY <1>7, <1>9, <2>3, <2>0 DEF Look
    <2> QED BY <2>2, <2>3
  <1>10. CASE QueryFails(c)
    <2>1. pc[c] = "ask" /\ Unresolved(c)
      BY <1>10 DEF QueryFails
    <2>2. CASE stage[c] = "target" /\ req[c].op = "put"
      BY <1>1, <2>1, <2>2, ResolvedTyped DEF Unresolved
    <2>3. CASE ~(stage[c] = "target" /\ req[c].op = "put")
      BY <1>1, <1>2, <2>1, <2>3, ReturnTyped DEF Unresolved
    <2> QED BY <2>2, <2>3
  <1>11. CASE WalkEnds(c)
    <2>1. cur[c] \in Ids \cup {Root} /\ cur[c] # NoId
      BY <1>1, IdsAssumption DEF Shaped
    <2> QED BY <1>1, <1>11, <2>1, ResolvedTyped DEF WalkEnds
  <1> QED BY <1>8, <1>9, <1>10, <1>11

LEMMA QueryIs ==
    ASSUME Typed, NEW c \in Callers, NEW i \in Ids, Query(c, i)
    PROVE  /\ Shaped' /\ OthersSame(c) /\ pc'[c] = "remember" /\ cur'[c] = i
           /\ depth[c] < Len(Wanted(c)) /\ Walking(c) /\ Built(c) \in Paths
           /\ depth'[c] = depth[c] + 1 /\ req'[c] = req[c] /\ stage'[c] = stage[c]
           /\ stage[c] \in Stages /\ ids'[c] = ids[c]
           /\ news'[c] = [NoNews EXCEPT ![Built(c)] = i]
  <1>1. Shaped /\ Orderly(c) /\ NewsKnown(c) /\ pc[c] = "ask"
    BY TypeParts DEF Typed, Query
  <1>2. Walking(c) /\ depth[c] < Len(Wanted(c)) /\ stage[c] \in Stages /\ depth[c] \in Nat
    BY <1>1 DEF Orderly, Walking, Shaped
  <1>3. Built(c) \in Paths
    BY <1>2, BuiltIsPath
  <1>4. news[c] = NoNews
    <2>1. news[c] \in [Paths -> Ids \cup {NoId, Keep}] /\ \A p \in Paths : news[c][p] = Keep
      BY <1>1 DEF NewsKnown, Shaped
    <2> QED BY <2>1 DEF NoNews
  <1>5. /\ news' \in [Callers -> [Paths -> Ids \cup {NoId, Keep}]]
        /\ news'[c] = [NoNews EXCEPT ![Built(c)] = i]
        /\ \A d \in Callers \ {c} : news'[d] = news[d]
    BY <1>1, <1>3, <1>4 DEF Query, Shaped
  <1>6. depth[c] + 1 \in Nat
    BY <1>2
  <1> QED BY <1>1, <1>2, <1>3, <1>5, <1>6
          DEF Query, Advance, Goto, Shaped, OthersSame, Same, PCs

LEMMA QueryTyped ==
    ASSUME Typed, NEW c \in Callers, NEW i \in Ids, Query(c, i)
    PROVE  Typed'
  <1>1. Shaped /\ Shared /\ Orderly(c) /\ NewsKnown(c) /\ UNCHANGED aside
    BY TypeParts DEF Typed, Query
  <1>2. Shared' /\ moved \subseteq moved'
    BY <1>1, AsideShared
  <1>3. /\ Shaped' /\ OthersSame(c) /\ pc'[c] = "remember"
        /\ depth[c] < Len(Wanted(c)) /\ Walking(c) /\ Built(c) \in Paths
        /\ depth'[c] = depth[c] + 1 /\ req'[c] = req[c] /\ stage'[c] = stage[c]
        /\ stage[c] \in Stages /\ ids'[c] = ids[c]
        /\ news'[c] = [NoNews EXCEPT ![Built(c)] = i]
    BY QueryIs
  <1>4. /\ pc[c] # "idle" /\ depth[c] \in Nat /\ stage[c] # "done"
    BY <1>1, <1>3 DEF Orderly, Walking, Shaped, Stages
  <1>5. Wanted(c) \in Strings
    BY <1>3, <1>4, PathAtIsPath DEF Wanted
  <1>6. Len(Wanted(c)) \in Nat /\ depth[c] + 1 \in 0..Len(Wanted(c))
    BY <1>3, <1>4, <1>5, LengthOf
  <1>7. Orderly(c)'
    <2>1. Wanted(c)' = Wanted(c)
      BY <1>3 DEF Wanted, PathAt
    <2>2. depth'[c] <= Len(Wanted(c)')
      BY <1>3, <1>6, <2>1
    <2>3. req'[c] # NoCall
      BY <1>1, <1>3, <1>4 DEF Orderly
    <2>4. req[c].op = "rename" /\ stage[c] = "parent" =>
              ids[c]["source"] # NoId \/ S!Front(req[c].path) = S!Front(req[c].to)
      BY <1>1 DEF Orderly
    <2> QED BY <1>3, <1>4, <2>2, <2>3, <2>4 DEF Orderly
  <1>8. \/ S!IsPrefix(Built(c), req[c].path) \/ S!IsPrefix(Built(c), req[c].to)
    <2>1. S!IsPrefix(Built(c), Wanted(c))
      BY <1>5, <1>6, CutIsPrefix DEF Built
    <2>2. QED
      <3>1. /\ req[c].path \in Paths \cup {<<>>} /\ req[c].to \in Paths \cup {<<>>}
        BY <1>1, <1>4 DEF Orderly, Shaped, Requests
      <3>2. Built(c) \in Strings /\ Built(c) # <<>>
        BY <1>3, PathsAreStrings
      <3>3. ASSUME NEW q \in Paths \cup {<<>>}, S!IsPrefix(Built(c), S!Front(q))
            PROVE  S!IsPrefix(Built(c), q)
        <4>1. CASE q = <<>>
          <5>1. S!Front(q) = <<>>
            <6>1. Len(<<>>) - 1 < 1
              BY EmptySeq
            <6> QED BY <4>1, <6>1, SubSeqEmpty, EmptySeq DEF S!Front
          <5> QED BY <3>3, <4>1, <5>1
        <4>2. CASE q # <<>>
          BY <3>2, <3>3, <4>2, PathsAreStrings, AboveFront DEF S!IsStrictPrefix
        <4> QED BY <4>1, <4>2
      <3> QED BY <1>3, <2>1, <3>1, <3>3 DEF Wanted, PathAt, Stages
  <1>9. NewsKnown(c)'
    <2>1. ASSUME NEW p \in Paths, news'[c][p] # Keep
          PROVE  p = Built(c) /\ news'[c][p] = i /\ i # NoId
      BY <1>3, <2>1, IdsAssumption DEF NoNews
    <2>2. ASSUME NEW p \in Paths, p = Built(c) PROVE About(c, p)'
      BY <1>3, <1>8, <2>2 DEF About
    <2> QED BY <1>3, <2>1, <2>2 DEF NewsKnown
  <1>10. Sourced(c)'
    BY <1>3, SourcedStill
  <1> QED BY <1>2, <1>3, <1>7, <1>9, <1>10, OneCallerSteps

(* A call of Drive ends the call, or brings news to write.                 *)
LEMMA OutcomeIs ==
    ASSUME Typed, NEW c \in Callers, pc[c] = "call", NEW reply \in BOOLEAN,
           NEW new \in [Paths -> Ids \cup {NoId, Keep}], Outcome(c, reply, new)
    PROVE  /\ Shaped' /\ OthersSame(c) /\ UNCHANGED <<connected, cache, calls>>
           /\ astray' = (astray \/ Misled(c) \/ ~reply)
           /\ reply => /\ pc'[c] = "remember" /\ news'[c] = new /\ req'[c] = req[c]
                       /\ stage'[c] = "done" /\ ids'[c] = ids[c]
           /\ ~reply => Return(c) /\ UNCHANGED news
  <1>1. Shaped /\ Orderly(c) /\ stage[c] = "done"
    BY TypeParts DEF Typed, Orderly
  <1>2. CASE reply
    <2>1. /\ news' \in [Callers -> [Paths -> Ids \cup {NoId, Keep}]]
          /\ news'[c] = new /\ \A d \in Callers \ {c} : news'[d] = news[d]
      BY <1>1, <1>2 DEF Outcome, Shaped
    <2>2. Goto(c, "remember") /\ UNCHANGED <<req, walk>> /\ "remember" \in PCs
      BY <1>2 DEF Outcome, PCs
    <2>3. /\ Shaped' /\ OthersSame(c) /\ pc'[c] = "remember"
          /\ req'[c] = req[c] /\ stage'[c] = stage[c] /\ ids'[c] = ids[c]
      BY <1>1, <2>1, <2>2, GotoIs
    <2> QED BY <1>1, <1>2, <2>1, <2>3 DEF Outcome
  <1>3. CASE ~reply
    BY <1>1, <1>3, ReturnIs DEF Outcome
  <1> QED BY <1>2, <1>3

LEMMA OutcomeTyped ==
    ASSUME Typed, NEW c \in Callers, pc[c] = "call", NEW reply \in BOOLEAN,
           NEW new \in [Paths -> Ids \cup {NoId, Keep}], Outcome(c, reply, new),
           drive' \in [Ids -> Nodes], moved \subseteq moved', moved' \subseteq Paths,
           crossed' \subseteq moved',
           \A p \in Paths : new[p] # Keep =>
               About(c, p) /\ (new[p] = NoId => p \in moved' /\ p = req[c].path)
    PROVE  Typed'
  <1>1. Shaped /\ Shared /\ Orderly(c) /\ NewsKnown(c)
    BY TypeParts DEF Typed
  <1>2. /\ Shaped' /\ OthersSame(c) /\ UNCHANGED <<connected, cache, calls>>
        /\ astray' = (astray \/ Misled(c) \/ ~reply)
        /\ reply => /\ pc'[c] = "remember" /\ news'[c] = new /\ req'[c] = req[c]
                    /\ stage'[c] = "done" /\ ids'[c] = ids[c]
        /\ ~reply => Return(c) /\ UNCHANGED news
    BY OutcomeIs
  <1>3. Shared'
    <2>1. astray' \in BOOLEAN
      BY <1>2, Zenon
    <2> QED BY <1>1, <1>2, <2>1 DEF Shared
  <1>4. CASE reply
    <2>1. Orderly(c)'
      BY <1>1, <1>2, <1>4 DEF Orderly, Walking
    <2>2. NewsKnown(c)'
      BY <1>2, <1>4 DEF NewsKnown, About
    <2>3. Sourced(c)'
      BY <1>1, <1>2, <1>4, SourcedStill DEF Orderly
    <2> QED BY <1>2, <1>3, <2>1, <2>2, <2>3, OneCallerSteps
  <1>5. CASE ~reply
    BY <1>2, <1>3, <1>5, ReturnTyped
  <1> QED BY <1>4, <1>5

(* A path is one of those its own call is about.                           *)
LEMMA AboutOwn ==
    ASSUME Typed, NEW c \in Callers, pc[c] # "idle"
    PROVE  About(c, req[c].path) /\ About(c, req[c].to)
  <1>1. req[c].path \in Strings /\ req[c].to \in Strings
    BY PathsAreStrings DEF Typed, TypeOK, Orderly, Requests
  <1>2. ASSUME NEW p \in Strings PROVE S!IsPrefix(p, p)
    <2>1. Len(p) \in Nat /\ SubSeq(p, 1, Len(p)) = p
      BY LengthOf, WholeCut
    <2> QED BY <2>1 DEF S!IsPrefix
  <1> QED BY <1>1, <1>2 DEF About

(* The paths of a call that changes a file.                                *)
LEMMA CallPaths ==
    ASSUME Typed, NEW c \in Callers, NEW op \in {"put", "mkdir", "remove", "rename"},
           Calling(c, op)
    PROVE  /\ req[c].path \in Paths /\ req[c].to \in Paths
           /\ S!Last(req[c].path) \in Names /\ S!Last(req[c].to) \in Names
           /\ op # "rename" => req[c].to = req[c].path
           /\ pc[c] = "call"
  <1>1. req[c] \in Requests /\ req[c].op = op /\ pc[c] = "call"
    BY DEF Typed, TypeOK, Orderly, Calling
  <1> QED BY <1>1 DEF Requests, Names

(* A file, live, has a parent and a name; moved or named anew, it is one.  *)
LEMMA LiveNode ==
    ASSUME NEW node \in Nodes, node.kind \in {"file", "folder"}
    PROVE  node \in [parent : Ids \cup {Root}, name : Names, kind : {"file", "folder"}]
  <1>1. Gone.kind = "gone" /\ Unborn.kind = "unborn"
    BY DEF Gone, Unborn
  <1>2. node # Gone /\ node # Unborn
    BY <1>1
  <1> QED BY <1>2 DEF Nodes

LEMMA FileNode ==
    ASSUME NEW node \in Nodes, node.kind \in {"file", "folder"}, NEW name \in Names
    PROVE  /\ node.parent \in Ids \cup {Root}
           /\ [node EXCEPT !.name = name] \in Nodes
           /\ \A i \in Ids \cup {Root} : [node EXCEPT !.name = name, !.parent = i] \in Nodes
  <1>1. node \in [parent : Ids \cup {Root}, name : Names, kind : {"file", "folder"}]
    BY LiveNode
  <1>2. [node EXCEPT !.name = name] \in
            [parent : Ids \cup {Root}, name : Names, kind : {"file", "folder"}]
    BY <1>1
  <1>3. \A i \in Ids \cup {Root} : [node EXCEPT !.name = name, !.parent = i] \in
            [parent : Ids \cup {Root}, name : Names, kind : {"file", "folder"}]
    BY <1>1
  <1> QED BY <1>1, <1>2, <1>3 DEF Nodes

LEMMA CallTyped ==
    ASSUME Typed, NEW c \in Callers, NEW reply \in BOOLEAN,
           \/ Stat(c) \/ List(c) \/ Replace(c, reply) \/ Remove(c, reply)
           \/ Rename(c, reply)
           \/ \E i \in Ids : Create(c, i, reply) \/ Mkdir(c, i, reply)
    PROVE  Typed'
  <1>1. Shaped /\ Shared /\ Orderly(c) /\ pc[c] = "call"
    BY TypeParts
    DEF Typed, Stat, List, Replace, Remove, Rename, Create, Mkdir, Calling
  <1>2. About(c, req[c].path) /\ About(c, req[c].to)
    BY <1>1, AboutOwn
  <1>3. NoNews \in [Paths -> Ids \cup {NoId, Keep}]
    BY DEF NoNews
  <1>4. ids[c] \in [Stages -> Ids \cup {Root, NoId}]
    BY <1>1 DEF Shaped
  <1>5. CASE Stat(c)
    <2>1. \A p \in Paths : NoNews[p] = Keep
      BY DEF NoNews
    <2> QED BY <1>1, <1>3, <1>5, <2>1, OutcomeTyped DEF Stat, Shared
  <1>6. CASE List(c)
    <2>1. PICK new \in [Paths -> Ids \cup {Keep}] :
              /\ \A p \in Paths :
                    LET found == Children(ids[c]["target"], S!Last(p))
                    IN  IF S!Front(p) = req[c].path /\ found # {}
                        THEN new[p] \in found ELSE new[p] = Keep
              /\ Outcome(c, TRUE, new)
      BY <1>6 DEF List
    <2>2. ASSUME NEW p \in Paths, new[p] # Keep PROVE About(c, p) /\ new[p] # NoId
      <3>1. S!Front(p) = req[c].path /\ new[p] \in Ids
        BY <2>1, <2>2
      <3> QED BY <1>6, <3>1, IdsAssumption DEF About, List, Calling
    <2>3. new \in [Paths -> Ids \cup {NoId, Keep}]
      BY <2>1
    <2> QED BY <1>1, <1>6, <2>1, <2>2, <2>3, OutcomeTyped DEF List, Shared
  <1>7. CASE Replace(c, reply)
    <2> DEFINE i == ids[c]["target"]
    <2>1. /\ req[c].path \in Paths /\ S!Last(req[c].path) \in Names
      BY <1>7, CallPaths DEF Replace
    <2>2. /\ i \in Ids /\ drive[i].kind = "file"
          /\ drive' = [drive EXCEPT ![i].name = S!Last(req[c].path)]
          /\ Outcome(c, reply, Bring(req[c].path, i)) /\ UNCHANGED <<moved, crossed>>
      BY <1>7 DEF Replace
    <2>3. drive' \in [Ids -> Nodes]
      <3>1. drive[i] \in Nodes
        BY <1>1, <2>2 DEF Shared
      <3>2. [drive[i] EXCEPT !.name = S!Last(req[c].path)] \in Nodes
        BY <2>1, <2>2, <3>1, FileNode
      <3> QED BY <1>1, <2>2, <3>2 DEF Shared
    <2>4. Bring(req[c].path, i) \in [Paths -> Ids \cup {NoId, Keep}]
      BY <2>1, <2>2 DEF Bring, NoNews
    <2>5. \A p \in Paths : Bring(req[c].path, i)[p] # Keep =>
              p = req[c].path /\ Bring(req[c].path, i)[p] # NoId
      BY <2>1, <2>2, IdsAssumption DEF Bring, NoNews
    <2> HIDE DEF i
    <2> QED BY <1>1, <1>2, <2>2, <2>3, <2>4, <2>5, OutcomeTyped DEF Shared
  <1>8. ASSUME NEW i \in Ids, Create(c, i, reply) \/ Mkdir(c, i, reply)
        PROVE  Typed'
    <2>1. /\ req[c].path \in Paths /\ S!Last(req[c].path) \in Names
      BY <1>8, CallPaths DEF Create, Mkdir
    <2>2. PICK kind \in {"file", "folder"} :
              /\ Born(c, i, kind) /\ Outcome(c, reply, Bring(req[c].path, i))
              /\ UNCHANGED <<moved, crossed>>
      BY <1>8 DEF Create, Mkdir
    <2>3. drive' \in [Ids -> Nodes]
      <3>1. ids[c]["parent"] \in Ids \cup {Root}
        BY <2>2 DEF Born, Folder
      <3>2. [parent |-> ids[c]["parent"], name |-> S!Last(req[c].path), kind |-> kind] \in Nodes
        BY <2>1, <3>1 DEF Nodes
      <3> QED BY <1>1, <2>2, <3>2 DEF Shared, Born
    <2>4. Bring(req[c].path, i) \in [Paths -> Ids \cup {NoId, Keep}]
      BY <2>1 DEF Bring, NoNews
    <2>5. \A p \in Paths : Bring(req[c].path, i)[p] # Keep =>
              p = req[c].path /\ Bring(req[c].path, i)[p] # NoId
      BY <2>1, IdsAssumption DEF Bring, NoNews
    <2> QED BY <1>1, <1>2, <2>2, <2>3, <2>4, <2>5, OutcomeTyped DEF Shared
  <1>9. CASE Remove(c, reply)
    <2>1. req[c].path \in Paths
      BY <1>9, CallPaths DEF Remove
    <2>2. drive' \in [Ids -> Nodes]
      BY <1>1, <1>9 DEF Remove, Shared, Nodes
    <2>3. /\ Outcome(c, reply, Bring(req[c].path, NoId))
          /\ moved' = moved \cup {req[c].path} /\ crossed' = Crossed(c)
      BY <1>9 DEF Remove
    <2>4. Bring(req[c].path, NoId) \in [Paths -> Ids \cup {NoId, Keep}]
      BY <2>1 DEF Bring, NoNews
    <2>5. \A p \in Paths : Bring(req[c].path, NoId)[p] # Keep => p = req[c].path
      BY <2>1 DEF Bring, NoNews
    <2>6. crossed' \subseteq moved'
      BY <1>1, <2>3 DEF Crossed, Shared
    <2> QED BY <1>1, <1>2, <2>1, <2>2, <2>3, <2>4, <2>5, <2>6, OutcomeTyped DEF Shared
  <1>10. CASE Rename(c, reply)
    <2> DEFINE i == ids[c]["target"]
               new == [NoNews EXCEPT ![req[c].path] = NoId, ![req[c].to] = i]
    <2>1. /\ req[c].path \in Paths /\ req[c].to \in Paths
          /\ S!Last(req[c].to) \in Names
      BY <1>10, CallPaths DEF Rename
    <2>2. /\ CanMove(c, i) /\ drive' = Relocated(c, i) /\ Outcome(c, reply, new)
          /\ moved' = moved \cup {req[c].path} /\ crossed' = Crossed(c)
      BY <1>10 DEF Rename
    <2>3. i \in Ids /\ Live(i) /\ i # NoId
      BY <2>2, IdsAssumption DEF CanMove
    <2>4. drive' \in [Ids -> Nodes]
      <3>1. drive[i] \in Nodes /\ drive[i].kind \in {"file", "folder"}
        BY <1>1, <2>3, IdsAssumption DEF Shared, Live
      <3>2. ids[c]["source"] # NoId => ids[c]["parent"] \in Ids \cup {Root}
        BY <2>2 DEF CanMove, Folder
      <3>3. [drive[i] EXCEPT !.name = S!Last(req[c].to),
                             !.parent = IF ids[c]["source"] = NoId THEN @ ELSE ids[c]["parent"]]
                \in Nodes
        BY <2>1, <3>1, <3>2, FileNode
      <3> QED BY <1>1, <2>2, <2>3, <3>3 DEF Shared, Relocated
    <2>5. new \in [Paths -> Ids \cup {NoId, Keep}]
      BY <2>1, <2>3 DEF NoNews
    <2>6. \A p \in Paths : new[p] # Keep =>
              /\ p \in {req[c].path, req[c].to}
              /\ new[p] = NoId => p = req[c].path
      BY <2>1, <2>3 DEF NoNews
    <2>7. crossed' \subseteq moved'
      BY <1>1, <2>2 DEF Crossed, Shared
    <2> HIDE DEF i, new
    <2> QED BY <1>1, <1>2, <2>1, <2>2, <2>4, <2>5, <2>6, <2>7, OutcomeTyped DEF Shared
  <1> QED BY <1>5, <1>6, <1>7, <1>8, <1>9, <1>10

LEMMA RememberIs ==
    ASSUME Typed, NEW c \in Callers, NEW p \in Paths, Remember(c, p)
    PROVE  /\ Shaped' /\ OthersSame(c) /\ UNCHANGED <<pc, req, walk>>
           /\ news'[c][p] = Keep
           /\ \A q \in Paths \ {p} : news'[c][q] = news[c][q]
           /\ cache'[p] = news[c][p] /\ news[c][p] \in Ids \cup {NoId}
           /\ \A q \in Paths \ {p} : cache'[q] = cache[q]
           /\ Shared' /\ crossed \subseteq crossed' /\ moved' = moved
           /\ UNCHANGED drive /\ UNCHANGED astray
           /\ news[c][p] = NoId => p = req[c].path /\ crossed' = Crossed(c)
  <1>1. Shaped /\ Shared /\ NewsKnown(c)
    BY TypeParts DEF Typed
  <1>2. /\ news' = [news EXCEPT ![c][p] = Keep] /\ UNCHANGED <<pc, req, walk>>
        /\ cache' = [cache EXCEPT ![p] = news[c][p]] /\ news[c][p] # Keep
        /\ UNCHANGED <<drive, connected, calls, moved, astray>>
        /\ crossed' = IF news[c][p] = NoId THEN Crossed(c) ELSE crossed
    BY DEF Remember
  <1>3. /\ news' \in [Callers -> [Paths -> Ids \cup {NoId, Keep}]]
        /\ news'[c][p] = Keep /\ \A q \in Paths \ {p} : news'[c][q] = news[c][q]
        /\ \A d \in Callers \ {c} : news'[d] = news[d]
    BY <1>1, <1>2 DEF Shaped
  <1>4. Shaped' /\ OthersSame(c)
    BY <1>1, <1>2, <1>3 DEF Shaped, OthersSame, Same, walk
  <1>5. /\ cache'[p] = news[c][p] /\ news[c][p] \in Ids \cup {NoId}
        /\ \A q \in Paths \ {p} : cache'[q] = cache[q]
    BY <1>1, <1>2 DEF Shaped, Shared
  <1>6. news[c][p] = NoId => p = req[c].path /\ p \in moved
    BY <1>1, <1>2 DEF NewsKnown
  <1>7. crossed \subseteq crossed' /\ crossed' \subseteq moved'
    BY <1>1, <1>2, <1>6 DEF Crossed, Shared
  <1>8. Shared'
    BY <1>1, <1>2, <1>5, <1>7 DEF Shared
  <1> QED BY <1>2, <1>3, <1>4, <1>5, <1>6, <1>7, <1>8

LEMMA RememberTyped ==
    ASSUME Typed, NEW c \in Callers, NEW p \in Paths, Remember(c, p)
    PROVE  Typed'
  <1>1. Orderly(c) /\ NewsKnown(c)
    BY DEF Typed
  <1>2. /\ Shaped' /\ OthersSame(c) /\ UNCHANGED <<pc, req, walk>>
        /\ news'[c][p] = Keep /\ \A q \in Paths \ {p} : news'[c][q] = news[c][q]
        /\ Shared' /\ moved' = moved
    BY RememberIs
  <1>3. Orderly(c)'
    BY <1>1, <1>2 DEF Orderly, Walking, Wanted, PathAt, walk
  <1>4. NewsKnown(c)'
    BY <1>1, <1>2 DEF NewsKnown, About, walk
  <1>5. Sourced(c)'
    BY <1>2 DEF Typed, Sourced, walk
  <1> QED BY <1>2, <1>3, <1>4, <1>5, OneCallerSteps

LEMMA RememberedTyped ==
    ASSUME Typed, NEW c \in Callers, Remembered(c)
    PROVE  Typed'
  <1>1. Shaped /\ Shared /\ Orderly(c) /\ NewsKnown(c)
        /\ pc[c] = "remember" /\ news[c] = NoNews /\ UNCHANGED <<aside, news>>
    BY TypeParts DEF Typed, Remembered
  <1>2. Shared' /\ moved \subseteq moved'
    BY <1>1, AsideShared
  <1>3. CASE stage[c] = "done"
    BY <1>1, <1>2, <1>3, ReturnTyped DEF Remembered
  <1>4. CASE stage[c] # "done"
    <2>1. Goto(c, "look") /\ UNCHANGED <<req, walk>> /\ "look" \in PCs
      BY <1>4 DEF Remembered, PCs
    <2>2. news' \in [Callers -> [Paths -> Ids \cup {NoId, Keep}]]
          /\ \A d \in Callers \ {c} : news'[d] = news[d]
      BY <1>1 DEF Shaped
    <2>3. /\ Shaped' /\ OthersSame(c)
          /\ pc'[c] = "look" /\ depth'[c] = depth[c] /\ req'[c] = req[c]
          /\ stage'[c] = stage[c] /\ ids'[c] = ids[c]
      BY <1>1, <2>1, <2>2, GotoIs
    <2>4. stage[c] \in Stages /\ Walking(c)
      BY <1>1, <1>4 DEF Shaped, Walking
    <2>5. Orderly(c)'
      BY <1>1, <2>3, <2>4 DEF Orderly, Walking, Wanted, PathAt
    <2>6. NewsKnown(c)'
      BY <1>1, NoNewsIsKnown DEF NewsKnown, NoNews
    <2>7. Sourced(c)'
      BY <2>3, SourcedStill
    <2> QED BY <1>2, <2>3, <2>5, <2>6, <2>7, OneCallerSteps
  <1> QED BY <1>3, <1>4

LEMMA MountTyped ==
    ASSUME Typed, \/ Mount
                  \/ \E c \in Callers : Unmount(c)
    PROVE  Typed'
  <1>1. Shaped /\ Shared /\ UNCHANGED <<drive, pc, req, walk, news, calls, history>>
        /\ connected' \in BOOLEAN /\ cache' = Empty
    BY TypeParts DEF Typed, Mount, Unmount
  <1>2. Shaped' /\ Shared'
    BY <1>1 DEF Shaped, Shared, walk, history, Empty
  <1>3. ASSUME NEW c \in Callers PROVE Orderly(c)' /\ Sourced(c)' /\ NewsKnown(c)'
    <2>1. Orderly(c) /\ Sourced(c) /\ NewsKnown(c)
      BY DEF Typed
    <2>2. Orderly(c)'
      BY <1>1, <2>1 DEF Orderly, Walking, Wanted, PathAt, walk
    <2>3. NewsKnown(c)'
      BY <1>1, <2>1 DEF NewsKnown, About, walk, history
    <2>4. Sourced(c)'
      BY <1>1, <2>1 DEF Sourced, walk
    <2> QED BY <2>2, <2>3, <2>4
  <1> QED BY <1>2, <1>3, TypeParts DEF Typed, TypeOK, Shaped, Shared, PCs

LEMMA InitTyped == Init => Typed
  <1> SUFFICES ASSUME Init PROVE Typed
    OBVIOUS
  <1>1. drive \in [Ids -> Nodes]
    <2>1. PICK at \in [Ids -> Paths \cup {<<>>}], kind \in [Ids -> {"file", "folder"}] :
              /\ Holds(at, kind)
              /\ drive = [i \in Ids |-> IF at[i] = <<>> THEN Unborn ELSE
                   [parent |-> ParentAt(at, at[i]), name |-> S!Last(at[i]), kind |-> kind[i]]]
      BY DEF Init
    <2>2. ASSUME NEW i \in Ids, at[i] # <<>>
          PROVE  [parent |-> ParentAt(at, at[i]), name |-> S!Last(at[i]), kind |-> kind[i]]
                     \in Nodes
      <3>1. at[i] \in Paths /\ S!Last(at[i]) \in Names
        BY <2>2 DEF Names
      <3>2. ParentAt(at, at[i]) \in Ids \cup {Root}
        <4>1. CASE Len(at[i]) = 1
          BY <4>1 DEF ParentAt
        <4>2. CASE Len(at[i]) # 1
          <5>1. Len(at[i]) > 1
            <6>1. at[i] \in Strings /\ at[i] # <<>>
              BY <3>1, PathsAreStrings
            <6>2. Len(at[i]) \in Nat \ {0}
              BY <6>1, FrontIs
            <6>3. \A n \in Nat \ {0} : n # 1 => n > 1
              OBVIOUS
            <6> QED BY <4>2, <6>2, <6>3
          <5>2. \E j \in Ids : at[j] = S!Front(at[i])
            BY <2>1, <5>1 DEF Holds
          <5> QED BY <4>2, <5>2 DEF ParentAt
        <4> QED BY <4>1, <4>2
      <3> QED BY <3>1, <3>2 DEF Nodes
    <2>3. Unborn \in Nodes
      BY DEF Nodes
    <2> QED BY <2>1, <2>2, <2>3
  <1>2. Shared
    <2>1. /\ connected = FALSE /\ cache = [p \in Paths |-> NoId] /\ calls = 0
          /\ moved = {} /\ crossed = {} /\ astray = FALSE
      BY DEF Init, Empty
    <2>2. 0 \in 0..MaxCalls
      BY CallsAssumption
    <2>3. [p \in Paths |-> NoId] \in [Paths -> Ids \cup {NoId}]
      OBVIOUS
    <2>4. connected \in BOOLEAN /\ astray \in BOOLEAN
      BY <2>1
    <2> QED BY <1>1, <2>1, <2>2, <2>3, <2>4 DEF Shared
  <1>3. Shaped
    BY DEF Init, Shaped, PCs, NoIds, NoNews
  <1>4. ASSUME NEW c \in Callers PROVE Orderly(c) /\ Sourced(c) /\ NewsKnown(c)
    <2>1. /\ pc[c] = "idle" /\ req[c] = NoCall /\ stage[c] = "done" /\ news[c] = NoNews
          /\ ids[c] = NoIds
      BY DEF Init
    <2>2. NewsKnown(c)
      BY <2>1, NoNewsIsKnown
    <2>3. Sourced(c)
      BY <2>1 DEF Sourced, NoIds, Stages
    <2> QED BY <2>1, <2>2, <2>3 DEF Orderly, Walking, NoCall
  <1> QED BY <1>2, <1>3, <1>4, TypeParts DEF Typed

LEMMA StepTyped == ASSUME Typed, NEW c \in Callers, Step(c) PROVE Typed'
  <1>1. CASE Unmount(c)
    BY <1>1, MountTyped
  <1>2. CASE \E r \in Requests : Begin(c, r)
    BY <1>2, BeginTyped
  <1>3. CASE Close(c)
    BY <1>3, CloseTyped
  <1>4. CASE LookWhole(c) \/ Look(c) \/ QueryFails(c) \/ WalkEnds(c)
    BY <1>4, WalkTyped
  <1>5. CASE \E i \in Ids : Query(c, i)
    BY <1>5, QueryTyped
  <1>6. CASE \/ Stat(c) \/ List(c)
             \/ \E reply \in BOOLEAN :
                   \/ Replace(c, reply) \/ Remove(c, reply) \/ Rename(c, reply)
                   \/ \E i \in Ids : Create(c, i, reply) \/ Mkdir(c, i, reply)
    BY <1>6, CallTyped
  <1>7. CASE CallFails(c)
    <2>1. Return(c) /\ UNCHANGED <<aside, news>> /\ pc[c] # "remember" /\ Shared
      BY <1>7, TypeParts DEF CallFails, Typed
    <2> QED BY <2>1, AsideShared, ReturnTyped
  <1>8. CASE \E p \in Paths : Remember(c, p)
    BY <1>8, RememberTyped
  <1>9. CASE Remembered(c)
    BY <1>9, RememberedTyped
  <1> QED BY <1>1, <1>2, <1>3, <1>4, <1>5, <1>6, <1>7, <1>8, <1>9 DEF Step

LEMMA NextTyped == Typed /\ [Next]_vars => Typed'
  <1> SUFFICES ASSUME Typed, [Next]_vars PROVE Typed'
    OBVIOUS
  <1>1. CASE Mount
    BY <1>1, MountTyped
  <1>2. CASE \E c \in Callers : Step(c)
    BY <1>2, StepTyped
  <1>3. CASE UNCHANGED vars
    <2>1. ASSUME NEW c \in Callers PROVE Orderly(c)' /\ Sourced(c)' /\ NewsKnown(c)'
      BY <1>3
      DEF Typed, vars, walk, history, Orderly, Sourced, NewsKnown, Walking,
          Wanted, PathAt, About
    <2>2. TypeOK'
      BY <1>3 DEF Typed, vars, walk, history, TypeOK
    <2> QED BY <2>1, <2>2 DEF Typed
  <1> QED BY <1>1, <1>2, <1>3 DEF Next

(* Every variable has its type: a call never holds an id that Drive did    *)
(* not give out, nor walks past the end of its path, for any number of     *)
(* threads, paths and files.                                               *)
THEOREM TypeCorrect == Spec => []TypeOK
  <1>1. Typed => TypeOK
    BY DEF Typed
  <1> QED BY <1>1, InitTyped, NextTyped, PTL DEF Spec

-----------------------------------------------------------------------------
(* Whose ids are right.                                                    *)

Using(c) == Walking(c) \/ pc[c] = "call"

(* A path that was moved under another call, or is below one that moved.   *)
Lasting(p) == p \in crossed \/ \E m \in moved : S!IsStrictPrefix(m, p)

(* i is at p, or p is a path of which nothing is promised.                 *)
Placed(i, p) == At(i, p) \/ (p \in Paths /\ Unsettled(p))

CacheRight == \A p \in Paths : cache[p] # NoId => Placed(cache[p], p)

(* A walk's id is that of the names behind it, a call's are those of its   *)
(* paths, and an answer's are those it was about.                          *)
WalkRight(c) == Walking(c) => Placed(cur[c], SubSeq(Wanted(c), 1, depth[c]))
IdsRight(c) ==
    Using(c) => \A s \in Stages : ids[c][s] # NoId => Placed(ids[c][s], PathAt(c, s))
NewsRight(c) ==
    \A p \in Paths : news[c][p] \in Ids => At(news[c][p], p) \/ Lasting(p)

Right == CacheRight /\ \A c \in Callers : WalkRight(c) /\ IdsRight(c) /\ NewsRight(c)

Inv == Typed /\ (~astray => Right)

LEMMA LastingIsUnsettled == \A p : Lasting(p) => Unsettled(p)
  BY DEF Lasting, Unsettled

LEMMA BelowUnsettled ==
    ASSUME Typed, NEW p \in Strings, p # <<>>, S!Front(p) \in Paths, Unsettled(S!Front(p))
    PROVE  Lasting(p)
  <1>1. PICK m \in moved : S!IsPrefix(m, S!Front(p))
    <2>1. CASE \E m \in moved : S!IsStrictPrefix(m, S!Front(p))
      BY <2>1 DEF S!IsStrictPrefix
    <2>2. CASE (\E c \in Callers : news[c][S!Front(p)] = NoId) \/ S!Front(p) \in crossed
      <3>1. S!Front(p) \in moved
        BY <2>2, IdsAssumption DEF Typed, TypeOK, NewsKnown
      <3>2. S!IsPrefix(S!Front(p), S!Front(p))
        <4>1. S!Front(p) \in Strings
          BY PathsAreStrings
        <4>2. Len(S!Front(p)) \in Nat /\ SubSeq(S!Front(p), 1, Len(S!Front(p))) = S!Front(p)
          BY <4>1, LengthOf, WholeCut
        <4> QED BY <4>2 DEF S!IsPrefix
      <3> QED BY <3>1, <3>2
    <2> QED BY <2>1, <2>2 DEF Unsettled
  <1>2. m \in Strings
    BY PathsAreStrings DEF Typed, TypeOK
  <1> QED BY <1>1, <1>2, AboveFront DEF Lasting

(* What is cut from the path of a stage is a path its call is about.       *)
LEMMA AboutCut ==
    ASSUME Typed, NEW c \in Callers, pc[c] # "idle", NEW s \in Stages,
           NEW n \in 0..Len(PathAt(c, s))
    PROVE  /\ SubSeq(PathAt(c, s), 1, n) \in Paths \cup {<<>>}
           /\ About(c, SubSeq(PathAt(c, s), 1, n))
  <1> DEFINE w == PathAt(c, s)
             q == SubSeq(w, 1, n)
  <1>1. w \in Paths \cup {<<>>} /\ w \in Strings
    BY PathAtIsPath
  <1>2. Len(w) \in Nat /\ q \in Strings /\ Len(q) = n /\ S!IsPrefix(q, w)
    BY <1>1, LengthOf, CutByName, CutIsPrefix
  <1>3. q \in Paths \cup {<<>>}
    <2>1. CASE n = 0
      BY <1>2, <2>1, EmptySeq DEF Strings
    <2>2. CASE n # 0
      <3>1. w # <<>> /\ n \in 1..Len(w)
        BY <1>2, <2>2, EmptySeq
      <3> QED BY <1>1, <3>1, PathsAssumption
    <2> QED BY <2>1, <2>2
  <1>4. req[c].path \in Paths \cup {<<>>} /\ req[c].to \in Paths \cup {<<>>}
    BY DEF Typed, TypeOK, Orderly, Requests
  <1>5. ASSUME NEW a \in Paths \cup {<<>>}, S!IsPrefix(q, S!Front(a))
        PROVE  S!IsPrefix(q, a)
    <2>1. CASE a = <<>>
      <3>1. Len(<<>>) - 1 < 1
        BY EmptySeq
      <3>2. S!Front(a) = a
        BY <2>1, <3>1, SubSeqEmpty, EmptySeq DEF S!Front
      <3> QED BY <1>5, <3>2
    <2>2. CASE a # <<>>
      BY <1>2, <1>5, <2>2, PathsAreStrings, AboveFront DEF S!IsStrictPrefix
    <2> QED BY <2>1, <2>2
  <1>6. S!IsPrefix(q, req[c].path) \/ S!IsPrefix(q, req[c].to)
    <2> HIDE DEF q
    <2>1. CASE s = "target"
      BY <1>2, <2>1 DEF PathAt
    <2>2. CASE s = "source"
      BY <1>2, <1>4, <1>5, <2>2 DEF PathAt
    <2>3. CASE s = "parent"
      BY <1>2, <1>4, <1>5, <2>3 DEF PathAt
    <2> QED BY <2>1, <2>2, <2>3 DEF Stages
  <1> QED BY <1>3, <1>6 DEF About

LEMMA AboutPathAt ==
    ASSUME Typed, NEW c \in Callers, pc[c] # "idle", NEW s \in Stages
    PROVE  PathAt(c, s) \in Paths \cup {<<>>} /\ About(c, PathAt(c, s))
  <1>1. PathAt(c, s) \in Strings
    BY PathAtIsPath
  <1>2. Len(PathAt(c, s)) \in Nat /\ SubSeq(PathAt(c, s), 1, Len(PathAt(c, s))) = PathAt(c, s)
    BY <1>1, LengthOf, WholeCut
  <1>3. Len(PathAt(c, s)) \in 0..Len(PathAt(c, s))
    BY <1>2
  <1>4. LET q == SubSeq(PathAt(c, s), 1, Len(PathAt(c, s)))
        IN  q \in Paths \cup {<<>>} /\ About(c, q)
    BY <1>3, AboutCut
  <1> QED BY <1>2, <1>4

(* The ids of callers that make no step stay right, when the paths they    *)
(* are about stay placed.                                                  *)
LEMMA OneCallerRight ==
    ASSUME Typed, Right, NEW c \in Callers, OthersSame(c),
           \A d \in Callers \ {c} : \A i, p :
              p \in Paths \cup {<<>>} /\ Busy(d) /\ About(d, p) /\ Placed(i, p)
                  => Placed(i, p)',
           \A d \in Callers \ {c} : NewsRight(d)',
           CacheRight', WalkRight(c)', IdsRight(c)', NewsRight(c)'
    PROVE  Right'
  <1>1. ASSUME NEW d \in Callers \ {c} PROVE WalkRight(d)' /\ IdsRight(d)'
    <2>1. Same(d) /\ WalkRight(d) /\ IdsRight(d) /\ Orderly(d)
      BY DEF OthersSame, Right, Typed
    <2>2. Walking(d)' = Walking(d) /\ Using(d)' = Using(d) /\ Wanted(d)' = Wanted(d)
          /\ \A s \in Stages : PathAt(d, s)' = PathAt(d, s)
      BY <2>1 DEF Same, Walking, Using, Wanted, PathAt
    <2>3. ASSUME Walking(d)
          PROVE  Placed(cur[d], SubSeq(Wanted(d), 1, depth[d]))'
      <3>1. pc[d] # "idle" /\ Busy(d) /\ stage[d] \in Stages
        BY <2>1, <2>3 DEF Walking, Busy, Orderly, Typed, TypeOK
      <3>2. Len(Wanted(d)) \in Nat /\ depth[d] \in 0..Len(Wanted(d))
        <4>1. Wanted(d) \in Strings
          BY <3>1, PathAtIsPath DEF Wanted
        <4>2. Len(Wanted(d)) \in Nat
          BY <4>1, LengthOf
        <4>3. depth[d] \in Nat /\ depth[d] <= Len(Wanted(d))
          BY <2>1, <2>3 DEF Orderly, Typed, TypeOK
        <4> QED BY <4>2, <4>3
      <3>3. LET q == SubSeq(Wanted(d), 1, depth[d])
            IN  q \in Paths \cup {<<>>} /\ About(d, q)
        BY <3>1, <3>2, AboutCut DEF Wanted
      <3>4. Placed(cur[d], SubSeq(Wanted(d), 1, depth[d]))
        BY <2>1, <2>3 DEF WalkRight
      <3>5. cur'[d] = cur[d] /\ depth'[d] = depth[d]
        BY <2>1 DEF Same
      <3> QED BY <2>2, <3>1, <3>3, <3>4, <3>5
    <2>4. ASSUME Using(d), NEW s \in Stages, ids[d][s] # NoId
          PROVE  Placed(ids[d][s], PathAt(d, s))'
      <3>1. pc[d] # "idle" /\ Busy(d)
        BY <2>4 DEF Using, Walking, Busy
      <3>2. PathAt(d, s) \in Paths \cup {<<>>} /\ About(d, PathAt(d, s))
        BY <3>1, AboutPathAt
      <3>3. Placed(ids[d][s], PathAt(d, s))
        BY <2>1, <2>4 DEF IdsRight
      <3>4. ids'[d] = ids[d]
        BY <2>1 DEF Same
      <3> QED BY <2>2, <3>1, <3>2, <3>3, <3>4
    <2>5. ids'[d] = ids[d]
      BY <2>1 DEF Same
    <2> QED BY <2>2, <2>3, <2>4, <2>5 DEF WalkRight, IdsRight
  <1> QED BY <1>1 DEF Right

(* While Drive and the history of moves stay, so does what is right.       *)
LEMMA QuietKeeps ==
    ASSUME UNCHANGED drive, moved \subseteq moved', crossed \subseteq crossed',
           \A c \in Callers, p \in Paths : news[c][p] = NoId => news'[c][p] = NoId
    PROVE  /\ \A i, p : At(i, p)' <=> At(i, p)
           /\ \A p : Lasting(p) => Lasting(p)'
           /\ \A i, p : Placed(i, p) => Placed(i, p)'
  <1>1. \A i, p : At(i, p)' <=> At(i, p)
    BY AtLeads, AtLeadsNext
  <1>2. \A p : Lasting(p) => Lasting(p)'
    BY DEF Lasting
  <1>3. \A p \in Paths : Unsettled(p) => Unsettled(p)'
    BY DEF Unsettled
  <1> QED BY <1>1, <1>2, <1>3 DEF Placed

(* What a walk does: it looks at the cache, or asks Drive.                 *)
LEMMA QuietRight ==
    ASSUME Typed, Right, NEW c \in Callers, OthersSame(c), UNCHANGED aside,
           \A p \in Paths : news[c][p] = NoId => news'[c][p] = NoId,
           WalkRight(c)', IdsRight(c)', NewsRight(c)'
    PROVE  Right'
  <1>1. UNCHANGED <<drive, cache, moved, crossed>>
    BY DEF aside, history
  <1>2. \A d \in Callers, p \in Paths : news[d][p] = NoId => news'[d][p] = NoId
    BY DEF OthersSame, Same
  <1>3. /\ \A i, p : At(i, p)' <=> At(i, p)
        /\ \A p : Lasting(p) => Lasting(p)'
        /\ \A i, p : Placed(i, p) => Placed(i, p)'
    BY <1>1, <1>2, QuietKeeps
  <1>4. CacheRight'
    BY <1>1, <1>3 DEF Right, CacheRight
  <1>5. ASSUME NEW d \in Callers \ {c} PROVE NewsRight(d)'
    BY <1>3 DEF Right, NewsRight, OthersSame, Same
  <1> QED BY <1>3, <1>4, <1>5, OneCallerRight

LEMMA KeptNews ==
    ASSUME Right, NEW c \in Callers, UNCHANGED aside, news' = news
    PROVE  /\ \A i, p : At(i, p)' <=> At(i, p)
           /\ \A i, p : Placed(i, p) => Placed(i, p)'
           /\ NewsRight(c)'
  <1>1. UNCHANGED <<drive, cache, moved, crossed>>
    BY DEF aside, history
  <1>2. /\ \A i, p : At(i, p)' <=> At(i, p)
        /\ \A p : Lasting(p) => Lasting(p)'
        /\ \A i, p : Placed(i, p) => Placed(i, p)'
    BY <1>1, QuietKeeps
  <1>3. NewsRight(c)'
    BY <1>2 DEF Right, NewsRight
  <1> QED BY <1>2, <1>3

LEMMA RootPlaced == Placed(Root, <<>>) /\ \A p : SubSeq(p, 1, 0) = <<>>
  <1>1. At(Root, <<>>)
    BY AtLeads, RootLeads
  <1>2. \A p : SubSeq(p, 1, 0) = <<>>
    BY SubSeqEmpty
  <1> QED BY <1>1, <1>2 DEF Placed

LEMMA BeginRight ==
    ASSUME Typed, Right, NEW c \in Callers,
           Close(c) \/ \E r \in Requests : Begin(c, r)
    PROVE  Right'
  <1>1. /\ Shaped /\ UNCHANGED <<drive, cache, moved, crossed>> /\ UNCHANGED news
        /\ ids[c] = NoIds /\ UNCHANGED ids
    BY TypeParts DEF Typed, Sourced, Close, Begin, history
  <1>2. /\ OthersSame(c) /\ pc'[c] \in {"writing", "whole"}
        /\ pc'[c] = "whole" => depth'[c] = 0 /\ cur'[c] = Root
    <2>1. CASE Close(c)
      BY <1>1, <2>1 DEF Close, Shaped, Resolving, Goto, OthersSame, Same
    <2>2. CASE \E r \in Requests : Begin(c, r) /\ r.op = "put"
      BY <1>1, <2>2 DEF Begin, Shaped, Goto, OthersSame, Same
    <2>3. CASE \E r \in Requests : Begin(c, r) /\ r.op # "put"
      <3>1. PICK r \in Requests : Begin(c, r) /\ r.op # "put"
        BY <2>3
      <3>2. PICK s \in {"parent", "target"} : Resolving(c, s)
        BY <3>1 DEF Begin
      <3> QED BY <1>1, <3>1, <3>2 DEF Begin, Shaped, Resolving, Goto, OthersSame, Same
    <2> QED BY <2>1, <2>2, <2>3
  <1>3. /\ \A i, p : Placed(i, p) => Placed(i, p)'
        /\ \A p : Lasting(p) => Lasting(p)'
        /\ \A i, p : At(i, p)' <=> At(i, p)
    BY <1>1, QuietKeeps
  <1>4. CacheRight'
    BY <1>1, <1>3 DEF Right, CacheRight
  <1>5. \A d \in Callers : NewsRight(d)'
    BY <1>1, <1>3 DEF Right, NewsRight
  <1>6. WalkRight(c)'
    <2>1. Walking(c)' => pc'[c] = "whole"
      BY <1>2 DEF Walking
    <2>2. Placed(Root, <<>>)' /\ SubSeq(Wanted(c)', 1, 0) = <<>>
      BY <1>3, RootPlaced
    <2> QED BY <1>2, <2>1, <2>2 DEF WalkRight
  <1>7. IdsRight(c)'
    BY <1>1 DEF IdsRight, NoIds
  <1> QED BY <1>2, <1>3, <1>4, <1>5, <1>6, <1>7, OneCallerRight

LEMMA ReturnRight ==
    ASSUME Typed, Right, NEW c \in Callers, Return(c), UNCHANGED <<aside, news>>
    PROVE  Right'
  <1>1. Shaped
    BY TypeParts DEF Typed
  <1>2. OthersSame(c) /\ pc'[c] = "idle"
    BY <1>1, ReturnIs
  <1>3. NewsRight(c)'
    BY KeptNews
  <1>4. WalkRight(c)' /\ IdsRight(c)'
    BY <1>2 DEF WalkRight, IdsRight, Using, Walking
  <1> QED BY <1>2, <1>3, <1>4, QuietRight

LEMMA ResolvedRight ==
    ASSUME Typed, Right, NEW c \in Callers, pc[c] \in {"look", "ask"},
           NEW id \in Ids \cup {Root, NoId}, Resolved(c, id), UNCHANGED <<aside, news>>,
           id # NoId => Placed(id, Wanted(c))
    PROVE  Right'
  <1>1. Shaped /\ stage[c] \in Stages /\ Using(c)
    BY TypeParts DEF Typed, Orderly, Using, Walking
  <1>2. /\ OthersSame(c)
        /\ req'[c] = req[c] /\ depth'[c] = 0 /\ cur'[c] = Root
        /\ ids'[c][stage[c]] = id
        /\ \A s \in Stages \ {stage[c]} : ids'[c][s] = ids[c][s]
    BY <1>1, ResolvedIs
  <1>3. (\A i, p : Placed(i, p) => Placed(i, p)') /\ NewsRight(c)'
    BY KeptNews
  <1>4. WalkRight(c)'
    <2>1. Placed(Root, <<>>)' /\ SubSeq(Wanted(c)', 1, 0) = <<>>
      BY <1>3, RootPlaced
    <2> QED BY <1>2, <2>1 DEF WalkRight
  <1>5. IdsRight(c)'
    <2>1. ASSUME NEW s \in Stages, ids'[c][s] # NoId
          PROVE  Placed(ids[c][s], PathAt(c, s))'
      <3>1. PathAt(c, s)' = PathAt(c, s)
        BY <1>2 DEF PathAt
      <3>2. CASE s = stage[c]
        BY <1>2, <1>3, <2>1, <3>1, <3>2 DEF Wanted
      <3>3. CASE s # stage[c]
        <4>1. ids'[c][s] = ids[c][s] /\ Placed(ids[c][s], PathAt(c, s))
          BY <1>1, <1>2, <2>1, <3>3 DEF Right, IdsRight
        <4> QED BY <1>3, <3>1, <4>1
      <3> QED BY <3>2, <3>3
    <2> QED BY <2>1 DEF IdsRight
  <1> QED BY <1>2, <1>3, <1>4, <1>5, QuietRight

(* The id a walk has come to is that of the names it has walked.           *)
LEMMA WalkedRight ==
    ASSUME Typed, Right, NEW c \in Callers,
           LookWhole(c) \/ Look(c) \/ QueryFails(c) \/ WalkEnds(c)
    PROVE  Right'
  <1>1. /\ Shaped /\ Shared /\ Orderly(c) /\ UNCHANGED aside /\ UNCHANGED news
        /\ Walking(c) /\ pc[c] # "idle" /\ pc[c] # "remember" /\ Using(c)
    BY TypeParts
    DEF Typed, LookWhole, Look, QueryFails, WalkEnds, Walking, Using
  <1>2. stage[c] \in Stages /\ depth[c] \in Nat /\ depth[c] <= Len(Wanted(c))
    BY <1>1 DEF Orderly, Walking, Shaped
  <1>3. Wanted(c) \in Paths \cup {<<>>} /\ Wanted(c) \in Strings
    BY <1>1, <1>2, PathAtIsPath DEF Wanted
  <1>4. Len(Wanted(c)) \in Nat /\ SubSeq(Wanted(c), 1, Len(Wanted(c))) = Wanted(c)
    BY <1>3, LengthOf, WholeCut
  <1>5. (\A i, p : Placed(i, p) => Placed(i, p)') /\ NewsRight(c)'
    BY <1>1, KeptNews
  <1>6. /\ CacheRight
        /\ Placed(cur[c], SubSeq(Wanted(c), 1, depth[c]))
        /\ \A s \in Stages : ids[c][s] # NoId => Placed(ids[c][s], PathAt(c, s))
    BY <1>1 DEF Right, WalkRight, IdsRight
  <1>7. ASSUME OthersSame(c), req'[c] = req[c], stage'[c] = stage[c], ids'[c] = ids[c],
               Placed(cur'[c], SubSeq(Wanted(c), 1, depth'[c]))
        PROVE  Right'
    <2>1. Wanted(c)' = Wanted(c) /\ \A s \in Stages : PathAt(c, s)' = PathAt(c, s)
      BY <1>7 DEF Wanted, PathAt
    <2>2. Placed(cur[c], SubSeq(Wanted(c), 1, depth[c]))'
      <3>1. \A i, q : Placed(i, q) => Placed(i, q)'
        BY <1>5
      <3>2. ASSUME NEW i, NEW q, i = cur'[c], q = SubSeq(Wanted(c), 1, depth'[c])
            PROVE  Placed(i, q)'
        BY <1>7, <3>1, <3>2
      <3> QED BY <2>1, <3>2
    <2>3. WalkRight(c)'
      BY <2>2 DEF WalkRight
    <2>4. IdsRight(c)'
      <3>1. ASSUME NEW s \in Stages, ids[c][s] # NoId PROVE Placed(ids[c][s], PathAt(c, s))'
        BY <1>5, <1>6, <1>7, <2>1, <3>1
      <3> QED BY <1>7, <3>1 DEF IdsRight
    <2> QED BY <1>1, <1>5, <1>7, <2>3, <2>4, QuietRight
  <1>8. CASE LookWhole(c)
    <2>1. CASE Wanted(c) # <<>> /\ cache[Wanted(c)] # NoId
      <3>1. cache[Wanted(c)] \in Ids
        BY <1>1, <1>3, <2>1 DEF Shared
      <3>2. /\ OthersSame(c) /\ req'[c] = req[c] /\ stage'[c] = stage[c]
            /\ ids'[c] = ids[c] /\ depth'[c] = Len(Wanted(c)) /\ cur'[c] = cache[Wanted(c)]
        BY <1>1, <1>4, <1>8, <2>1, <3>1, AdvanceIs DEF LookWhole, PCs
      <3>3. Placed(cache[Wanted(c)], Wanted(c))
        BY <1>3, <1>6, <2>1 DEF CacheRight
      <3> QED BY <1>4, <1>7, <3>2, <3>3
    <2>2. CASE ~(Wanted(c) # <<>> /\ cache[Wanted(c)] # NoId)
      <3>1. UNCHANGED <<req, walk>> /\ Goto(c, "look") /\ "look" \in PCs
        BY <1>8, <2>2 DEF LookWhole, PCs
      <3>2. news' \in [Callers -> [Paths -> Ids \cup {NoId, Keep}]]
            /\ \A d \in Callers \ {c} : news'[d] = news[d]
        BY <1>1 DEF Shaped
      <3>3. /\ OthersSame(c) /\ req'[c] = req[c] /\ stage'[c] = stage[c]
            /\ ids'[c] = ids[c] /\ depth'[c] = depth[c] /\ cur'[c] = cur[c]
        BY <1>1, <3>1, <3>2, GotoIs
      <3> QED BY <1>6, <1>7, <3>3
    <2> QED BY <2>1, <2>2
  <1>9. CASE Look(c)
    <2>0. pc[c] = "look" /\ ~Walked(c)
      BY <1>9 DEF Look
    <2>1. depth[c] < Len(Wanted(c))
      BY <1>2, <1>4, <2>0 DEF Walked
    <2>2. CASE cache[Built(c)] # NoId
      <3>1. Built(c) \in Paths /\ cache[Built(c)] \in Ids
        BY <1>1, <2>1, <2>2, BuiltIsPath DEF Shared
      <3>2. Goto(c, "look") /\ "look" \in PCs
        BY <1>1, <1>9, <2>0, <2>2 DEF Look, Goto, Shaped, PCs
      <3>3. Advance(c, depth[c] + 1, cache[Built(c)]) /\ depth[c] + 1 \in Nat
        BY <1>2, <1>9, <2>2 DEF Look
      <3>4. /\ OthersSame(c) /\ req'[c] = req[c] /\ stage'[c] = stage[c]
            /\ ids'[c] = ids[c] /\ depth'[c] = depth[c] + 1 /\ cur'[c] = cache[Built(c)]
        BY <1>1, <3>1, <3>2, <3>3, AdvanceIs
      <3>5. Placed(cache[Built(c)], Built(c))
        BY <1>6, <2>2, <3>1 DEF CacheRight
      <3> QED BY <1>7, <3>4, <3>5 DEF Built
    <2>3. CASE cache[Built(c)] = NoId
      <3>1. UNCHANGED <<req, walk>> /\ Goto(c, "ask") /\ "ask" \in PCs
        BY <1>9, <2>3 DEF Look, PCs
      <3>2. news' \in [Callers -> [Paths -> Ids \cup {NoId, Keep}]]
            /\ \A d \in Callers \ {c} : news'[d] = news[d]
        BY <1>1 DEF Shaped
      <3>3. /\ OthersSame(c) /\ req'[c] = req[c] /\ stage'[c] = stage[c]
            /\ ids'[c] = ids[c] /\ depth'[c] = depth[c] /\ cur'[c] = cur[c]
        BY <1>1, <3>1, <3>2, GotoIs
      <3> QED BY <1>6, <1>7, <3>3
    <2> QED BY <2>2, <2>3
  <1>10. CASE QueryFails(c)
    <2>1. pc[c] = "ask" /\ Unresolved(c)
      BY <1>10 DEF QueryFails
    <2>2. CASE stage[c] = "target" /\ req[c].op = "put"
      BY <1>1, <2>1, <2>2, ResolvedRight DEF Unresolved
    <2>3. CASE ~(stage[c] = "target" /\ req[c].op = "put")
      BY <1>1, <2>1, <2>3, ReturnRight DEF Unresolved
    <2> QED BY <2>2, <2>3
  <1>11. CASE WalkEnds(c)
    <2>1. cur[c] \in Ids \cup {Root}
      BY <1>1 DEF Shaped
    <2>2. depth[c] = Len(Wanted(c))
      BY <1>11 DEF WalkEnds, Walked
    <2> QED BY <1>1, <1>4, <1>6, <1>11, <2>1, <2>2, ResolvedRight DEF WalkEnds
  <1> QED BY <1>8, <1>9, <1>10, <1>11

(* Drive's answer is a child of the file the walk has come to.             *)
LEMMA QueryRight ==
    ASSUME Typed, Right, NEW c \in Callers, NEW i \in Ids, Query(c, i)
    PROVE  Right'
  <1>1. /\ OthersSame(c) /\ cur'[c] = i
        /\ depth[c] < Len(Wanted(c)) /\ Walking(c) /\ Built(c) \in Paths
        /\ depth'[c] = depth[c] + 1 /\ req'[c] = req[c] /\ stage'[c] = stage[c]
        /\ ids'[c] = ids[c] /\ news'[c] = [NoNews EXCEPT ![Built(c)] = i]
    BY QueryIs
  <1>2. /\ UNCHANGED aside /\ i \in Children(cur[c], S!Last(Built(c)))
        /\ pc[c] = "ask" /\ NewsKnown(c)
    BY DEF Query, Typed
  <1>3. \A p \in Paths : news[c][p] = Keep
    BY <1>2 DEF NewsKnown
  <1>4. /\ \A j, p : At(j, p)' <=> At(j, p)
        /\ \A p : Lasting(p) => Lasting(p)'
        /\ \A j, p : Placed(j, p) => Placed(j, p)'
    <2>1. UNCHANGED <<drive, moved, crossed>>
      BY <1>2 DEF aside, history
    <2>2. \A d \in Callers, p \in Paths : news[d][p] = NoId => news'[d][p] = NoId
      BY <1>1, <1>3, IdsAssumption DEF OthersSame, Same
    <2> QED BY <2>1, <2>2, QuietKeeps
  <1>5. At(i, Built(c)) \/ Lasting(Built(c))
    <2>1. /\ Built(c) \in Strings /\ Built(c) # <<>>
          /\ S!Front(Built(c)) = SubSeq(Wanted(c), 1, depth[c])
      BY <1>1, BuiltIsPath, PathsAreStrings
    <2>2. Placed(cur[c], S!Front(Built(c)))
      BY <1>1, <2>1 DEF Right, WalkRight
    <2>3. CASE At(cur[c], S!Front(Built(c)))
      <3>1. ChildOf(drive, i, cur[c], S!Last(Built(c)))
        BY <1>2, IdsAssumption DEF Children, ChildOf, Live
      <3>2. Leads(drive, i, Built(c))
        BY <2>1, <2>3, <3>1, AtLeads, ChildLeads
      <3> QED BY <3>2, AtLeads
    <2>4. CASE S!Front(Built(c)) \in Paths /\ Unsettled(S!Front(Built(c)))
      BY <2>1, <2>4, BelowUnsettled
    <2> QED BY <2>2, <2>3, <2>4 DEF Placed
  <1>6. NewsRight(c)'
    <2>1. ASSUME NEW p \in Paths, news'[c][p] \in Ids
          PROVE  p = Built(c) /\ news'[c][p] = i
      BY <1>1, <2>1, IdsAssumption DEF NoNews
    <2>2. ASSUME NEW p \in Paths, p = Built(c) PROVE At(i, p)' \/ Lasting(p)'
      BY <1>4, <1>5, <2>2
    <2> QED BY <2>1, <2>2 DEF NewsRight
  <1>7. Wanted(c)' = Wanted(c) /\ \A s \in Stages : PathAt(c, s)' = PathAt(c, s)
    BY <1>1 DEF Wanted, PathAt
  <1>8. WalkRight(c)'
    <2>1. Placed(i, Built(c))
      BY <1>1, <1>5, LastingIsUnsettled DEF Placed
    <2>2. ASSUME NEW q, q = Built(c) PROVE Placed(i, q)'
      BY <1>4, <2>1, <2>2
    <2>3. SubSeq(Wanted(c)', 1, depth'[c]) = Built(c)
      BY <1>1, <1>7 DEF Built
    <2> QED BY <1>1, <2>2, <2>3 DEF WalkRight
  <1>9. IdsRight(c)'
    <2>1. ASSUME NEW s \in Stages, ids[c][s] # NoId PROVE Placed(ids[c][s], PathAt(c, s))'
      <3>1. Placed(ids[c][s], PathAt(c, s))
        BY <1>1, <2>1 DEF Right, IdsRight, Using
      <3> QED BY <1>1, <1>4, <1>7, <3>1
    <2> QED BY <1>1, <2>1 DEF IdsRight
  <1>10. \A p \in Paths : news[c][p] = NoId => news'[c][p] = NoId
    BY <1>3, IdsAssumption
  <1> QED BY <1>1, <1>2, <1>6, <1>8, <1>9, <1>10, QuietRight

(* What is forgotten under a call that was about it is crossed from then.  *)
LEMMA RememberRight ==
    ASSUME Typed, Right, NEW c \in Callers, NEW p \in Paths, Remember(c, p)
    PROVE  Right'
  <1>1. /\ OthersSame(c) /\ UNCHANGED <<pc, req, walk>>
        /\ news'[c][p] = Keep /\ \A q \in Paths \ {p} : news'[c][q] = news[c][q]
        /\ cache'[p] = news[c][p] /\ news[c][p] \in Ids \cup {NoId}
        /\ \A q \in Paths \ {p} : cache'[q] = cache[q]
        /\ crossed \subseteq crossed' /\ moved' = moved /\ UNCHANGED drive
        /\ news[c][p] = NoId => p = req[c].path /\ crossed' = Crossed(c)
    BY RememberIs
  <1>2. NewsKnown(c) /\ pc[c] = "remember" /\ news[c][p] # Keep
    BY DEF Typed, Remember
  <1>3. /\ \A i, q : At(i, q)' <=> At(i, q)
        /\ \A q : Lasting(q) => Lasting(q)'
    <2>1. \A i, q : At(i, q)' <=> At(i, q)
      BY <1>1, AtLeads, AtLeadsNext
    <2> QED BY <1>1, <2>1 DEF Lasting
  <1>4. \A q \in Paths \ {p} : Unsettled(q) => Unsettled(q)'
    BY <1>1 DEF Unsettled, OthersSame, Same
  <1>5. \A d \in Callers : NewsRight(d)'
    <2>1. ASSUME NEW d \in Callers, NEW q \in Paths, news'[d][q] \in Ids
          PROVE  At(news'[d][q], q) \/ Lasting(q)
      <3>1. news'[d][q] = news[d][q]
        BY <1>1, <2>1, IdsAssumption DEF OthersSame, Same
      <3> QED BY <2>1, <3>1 DEF Right, NewsRight
    <2> QED BY <1>3, <2>1 DEF NewsRight
  <1>6. CASE news[c][p] # NoId
    <2>1. \A i, q : Placed(i, q) => Placed(i, q)'
      <3>1. \A d \in Callers, q \in Paths : news[d][q] = NoId => news'[d][q] = NoId
        BY <1>1, <1>6 DEF OthersSame, Same
      <3> QED BY <1>1, <3>1, QuietKeeps
    <2>2. CacheRight'
      <3>1. ASSUME NEW i, i = news[c][p] PROVE Placed(i, p)'
        <4>1. At(i, p) \/ Lasting(p)
          BY <1>1, <1>6, <3>1 DEF Right, NewsRight
        <4>2. Lasting(p)' => Unsettled(p)'
          BY DEF Lasting, Unsettled
        <4> QED BY <1>3, <4>1, <4>2 DEF Placed
      <3>2. Placed(cache[p], p)'
        BY <1>1, <3>1
      <3>3. ASSUME NEW q \in Paths, q # p, cache'[q] # NoId PROVE Placed(cache[q], q)'
        BY <1>1, <2>1, <3>3 DEF Right, CacheRight
      <3> QED BY <3>2, <3>3 DEF CacheRight
    <2>3. Wanted(c)' = Wanted(c) /\ \A s \in Stages : PathAt(c, s)' = PathAt(c, s)
      BY <1>1 DEF Wanted, PathAt, walk
    <2>4. WalkRight(c)'
      BY <1>1, <2>1, <2>3 DEF Right, WalkRight, Walking, walk
    <2>5. IdsRight(c)'
      BY <1>1, <2>1, <2>3 DEF Right, IdsRight, Using, Walking, walk
    <2> QED BY <1>1, <1>5, <2>1, <2>2, <2>4, <2>5, OneCallerRight
  <1>7. CASE news[c][p] = NoId
    <2>1. CacheRight'
      <3>1. ASSUME NEW q \in Paths, cache'[q] # NoId PROVE Placed(cache[q], q)'
        <4>1. q # p /\ cache'[q] = cache[q] /\ Placed(cache[q], q)
          BY <1>1, <1>7, <3>1 DEF Right, CacheRight
        <4> QED BY <1>3, <1>4, <4>1 DEF Placed
      <3> QED BY <3>1 DEF CacheRight
    <2>2. stage'[c] = "done" /\ pc'[c] = "remember"
      BY <1>1, <1>2, <1>7 DEF NewsKnown, walk
    <2>3. WalkRight(c)' /\ IdsRight(c)'
      BY <2>2 DEF WalkRight, IdsRight, Using, Walking
    <2>4. ASSUME NEW d \in Callers \ {c}, NEW i, NEW q, q \in Paths \cup {<<>>},
                 Busy(d), About(d, q), Placed(i, q)
          PROVE  Placed(i, q)'
      <3>1. CASE q # p
        BY <1>3, <1>4, <2>4, <3>1 DEF Placed
      <3>2. CASE q = p
        <4>1. p \in crossed'
          BY <1>1, <1>7, <2>4, <3>2 DEF Crossed
        <4> QED BY <3>2, <4>1 DEF Placed, Unsettled
      <3> QED BY <3>1, <3>2
    <2> QED BY <1>1, <1>5, <2>1, <2>3, <2>4, OneCallerRight
  <1> QED BY <1>6, <1>7

LEMMA RememberedRight ==
    ASSUME Typed, Right, NEW c \in Callers, Remembered(c)
    PROVE  Right'
  <1>1. Shaped /\ pc[c] = "remember" /\ UNCHANGED aside /\ UNCHANGED news
    BY TypeParts DEF Typed, Remembered
  <1>2. CASE stage[c] = "done"
    BY <1>1, <1>2, ReturnRight DEF Remembered
  <1>3. CASE stage[c] # "done"
    <2>1. Goto(c, "look") /\ UNCHANGED <<req, walk>> /\ "look" \in PCs
      BY <1>3 DEF Remembered, PCs
    <2>2. news' \in [Callers -> [Paths -> Ids \cup {NoId, Keep}]]
          /\ \A d \in Callers \ {c} : news'[d] = news[d]
      BY <1>1 DEF Shaped
    <2>3. /\ OthersSame(c)
          /\ depth'[c] = depth[c] /\ cur'[c] = cur[c] /\ req'[c] = req[c]
          /\ stage'[c] = stage[c] /\ ids'[c] = ids[c]
      BY <1>1, <2>1, <2>2, GotoIs
    <2>4. (\A i, p : Placed(i, p) => Placed(i, p)') /\ NewsRight(c)'
      BY <1>1, KeptNews
    <2>5. Walking(c) /\ Using(c)
      BY <1>1, <1>3 DEF Walking, Using
    <2>6. Wanted(c)' = Wanted(c) /\ \A s \in Stages : PathAt(c, s)' = PathAt(c, s)
      BY <2>3 DEF Wanted, PathAt
    <2>7. WalkRight(c)'
      <3>1. Placed(cur[c], SubSeq(Wanted(c), 1, depth[c]))
        BY <2>5 DEF Right, WalkRight
      <3> QED BY <2>3, <2>4, <2>6, <3>1 DEF WalkRight
    <2>8. IdsRight(c)'
      BY <2>3, <2>4, <2>5, <2>6 DEF Right, IdsRight
    <2> QED BY <1>1, <2>3, <2>4, <2>7, <2>8, QuietRight
  <1> QED BY <1>2, <1>3

(* Drive has acted: a path that lost its file is the one that was moved    *)
(* and is about to be forgotten, or lies below it.                         *)
LEMMA ChangeRight ==
    ASSUME Typed, Right, NEW c \in Callers, pc[c] = "call", OthersSame(c),
           pc'[c] = "remember", stage'[c] = "done", cache' = cache,
           moved \subseteq moved', crossed \subseteq crossed',
           \A i, p : p \in Paths \cup {<<>>} /\ At(i, p) =>
              \/ At(i, p)'
              \/ p \in Paths /\ Lasting(p)'
              \/ p \in Paths /\ p = req[c].path /\ news'[c][p] = NoId /\ crossed' = Crossed(c),
           \A p \in Paths : news'[c][p] \in Ids => At(news[c][p], p)' \/ Lasting(p)'
    PROVE  Right'
  <1>1. \A p \in Paths : Unsettled(p) => Unsettled(p)'
    <2>1. \A p \in Paths : news[c][p] # NoId
      BY IdsAssumption DEF Typed, NewsKnown
    <2> QED BY <2>1 DEF Unsettled, OthersSame, Same
  <1>2. \A p \in Paths : Lasting(p)' => Unsettled(p)'
    BY DEF Lasting, Unsettled
  <1>3. ASSUME NEW i, NEW p \in Paths \cup {<<>>}, Placed(i, p)
        PROVE  Placed(i, p)'
    <2>1. CASE p \in Paths /\ Unsettled(p)
      BY <1>1, <2>1 DEF Placed
    <2>2. CASE At(i, p)
      <3>1. p \in Paths /\ news'[c][p] = NoId => Unsettled(p)'
        BY DEF Unsettled
      <3> QED BY <1>2, <2>2, <3>1 DEF Placed
    <2> QED BY <1>3, <2>1, <2>2 DEF Placed
  <1>4. CacheRight'
    BY <1>3 DEF Right, CacheRight
  <1>5. NewsRight(c)'
    BY DEF NewsRight
  <1>6. ASSUME NEW d \in Callers \ {c} PROVE NewsRight(d)'
    <2> SUFFICES ASSUME NEW p \in Paths, news'[d][p] \in Ids
                 PROVE  At(news[d][p], p)' \/ Lasting(p)'
      BY DEF NewsRight
    <2>1. news'[d][p] = news[d][p] /\ news[d][p] # Keep
      BY IdsAssumption DEF OthersSame, Same
    <2>2. Busy(d) /\ About(d, p)
      BY <2>1 DEF Typed, NewsKnown, Busy
    <2>3. CASE Lasting(p)
      BY <2>3 DEF Lasting
    <2>4. CASE At(news[d][p], p)
      <3>1. p = req[c].path /\ crossed' = Crossed(c) => Lasting(p)'
        BY <2>2 DEF Crossed, Lasting
      <3>2. ASSUME NEW i, At(i, p) PROVE At(i, p)' \/ Lasting(p)'
        BY <3>1, <3>2
      <3> QED BY <2>1, <2>4, <3>2
    <2> QED BY <2>1, <2>3, <2>4 DEF Right, NewsRight
  <1>7. WalkRight(c)' /\ IdsRight(c)'
    BY DEF WalkRight, IdsRight, Using, Walking
  <1> QED BY <1>3, <1>4, <1>5, <1>6, <1>7, OneCallerRight

(* The ids a call uses, when none of them misleads it.                     *)
LEMMA NotMisled ==
    ASSUME NEW c, ~Misled(c), NEW s \in Stages, ids[c][s] # NoId
    PROVE  At(ids[c][s], PathAt(c, s))
  BY DEF Misled

(* A new file is at its path, and no file loses its own.                   *)
LEMMA BornAt ==
    ASSUME NEW c \in Callers, NEW i \in Ids, NEW kind \in {"file", "folder"},
           drive \in [Ids -> Nodes], Born(c, i, kind),
           req[c].path \in Paths, At(ids[c]["parent"], S!Front(req[c].path)),
           req'[c] = req[c]
    PROVE  /\ \A j, p : p \in Paths \cup {<<>>} /\ At(j, p) => At(j, p)'
           /\ drive'[i].kind = kind /\ At(i, req[c].path)'
  <1> DEFINE t == req[c].path
  <1>1. /\ drive[i] = Unborn
        /\ drive'[i] = [parent |-> ids[c]["parent"], name |-> S!Last(t), kind |-> kind]
        /\ \A j \in Ids \ {i} : drive'[j] = drive[j]
    BY DEF Born
  <1>2. t \in Strings /\ t # <<>> /\ S!Front(t) \in Strings
    BY PathsAreStrings, FrontIs
  <1>3. ASSUME NEW j, NEW p \in Strings, At(j, p) PROVE At(j, p)'
    BY <1>1, <1>3, NewFileKeeps
  <1>4. Leads(drive', ids[c]["parent"], S!Front(t))
    <2>1. ASSUME NEW j, j = ids[c]["parent"], NEW q, q = S!Front(t)
          PROVE  Leads(drive', j, q)
      BY <1>2, <1>3, <2>1, AtLeadsNext
    <2> QED BY <2>1
  <1>5. ChildOf(drive', i, ids[c]["parent"], S!Last(t))
    BY <1>1 DEF ChildOf
  <1>6. Leads(drive', i, t)
    BY <1>2, <1>4, <1>5, ChildLeads
  <1>7. At(i, req[c].path)'
    BY <1>6, AtLeadsNext
  <1> QED BY <1>1, <1>3, <1>7, PathsAreStrings

(* A file that is given the name it has is as it was.                      *)
LEMMA SameNode ==
    ASSUME NEW i \in Ids, drive \in [Ids -> Nodes], drive[i].kind \in {"file", "folder"}
    PROVE  [drive EXCEPT ![i].name = drive[i].name] = drive
  <1>1. drive[i] \in [parent : Ids \cup {Root}, name : Names, kind : {"file", "folder"}]
    BY LiveNode
  <1>2. [drive[i] EXCEPT !.name = drive[i].name] = drive[i]
    BY <1>1
  <1> QED BY <1>2

LEMMA BringIs ==
    ASSUME NEW p \in Paths, NEW i, NEW q \in Paths
    PROVE  Bring(p, i)[q] = IF q = p THEN i ELSE Keep
  BY DEF Bring, NoNews

LEMMA StatRight ==
    ASSUME Typed, Right, NEW c \in Callers, Stat(c)
    PROVE  Right'
  <1>1. pc[c] = "call" /\ UNCHANGED <<drive, moved, crossed>> /\ Outcome(c, TRUE, NoNews)
    BY DEF Stat, Calling
  <1>2. /\ OthersSame(c) /\ cache' = cache
        /\ pc'[c] = "remember" /\ news'[c] = NoNews /\ stage'[c] = "done"
    <2>1. NoNews \in [Paths -> Ids \cup {NoId, Keep}]
      BY DEF NoNews
    <2> QED BY <1>1, <2>1, OutcomeIs
  <1>3. \A i, p : At(i, p) => At(i, p)'
    BY <1>1, AtLeads, AtLeadsNext
  <1>4. \A p \in Paths : news'[c][p] \notin Ids
    BY <1>2, IdsAssumption DEF NoNews
  <1> QED BY <1>1, <1>2, <1>3, <1>4, ChangeRight

LEMMA ListRight ==
    ASSUME Typed, Right, NEW c \in Callers, List(c), ~astray' PROVE Right'
  <1>1. PICK new \in [Paths -> Ids \cup {Keep}] :
            /\ \A p \in Paths :
                  LET found == Children(ids[c]["target"], S!Last(p))
                  IN  IF S!Front(p) = req[c].path /\ found # {}
                      THEN new[p] \in found ELSE new[p] = Keep
            /\ Outcome(c, TRUE, new)
    BY DEF List
  <1>2. /\ pc[c] = "call" /\ UNCHANGED <<drive, moved, crossed>>
        /\ Live(ids[c]["target"])
    BY DEF List, Calling
  <1>3. new \in [Paths -> Ids \cup {NoId, Keep}]
    OBVIOUS
  <1>4. /\ OthersSame(c) /\ cache' = cache /\ ~Misled(c)
        /\ pc'[c] = "remember" /\ news'[c] = new /\ stage'[c] = "done"
    BY <1>1, <1>2, <1>3, OutcomeIs
  <1>5. \A i, p : At(i, p)' <=> At(i, p)
    BY <1>2, AtLeads, AtLeadsNext
  <1>6. At(ids[c]["target"], req[c].path)
    <2>1. ids[c]["target"] # NoId
      BY <1>2, IdsAssumption DEF Live
    <2> QED BY <1>4, <2>1, NotMisled DEF PathAt, Stages
  <1>7. ASSUME NEW p \in Paths, new[p] \in Ids PROVE At(new[p], p)
    <2>1. S!Front(p) = req[c].path /\ new[p] \in Children(ids[c]["target"], S!Last(p))
      BY <1>1, <1>7, IdsAssumption
    <2>2. ChildOf(drive, new[p], ids[c]["target"], S!Last(p))
      BY <2>1, IdsAssumption DEF Children, ChildOf, Live
    <2>3. Leads(drive, ids[c]["target"], S!Front(p))
      BY <1>6, <2>1, AtLeads
    <2>4. Leads(drive, new[p], p)
      BY <2>2, <2>3, PathsAreStrings, ChildLeads
    <2> QED BY <2>4, AtLeads
  <1>8. \A p \in Paths : news'[c][p] \in Ids => At(news[c][p], p)'
    BY <1>4, <1>5, <1>7
  <1> QED BY <1>2, <1>4, <1>5, <1>8, ChangeRight

LEMMA ReplaceRight ==
    ASSUME Typed, Right, NEW c \in Callers, NEW reply \in BOOLEAN, Replace(c, reply),
           ~astray'
    PROVE  Right'
  <1> DEFINE i == ids[c]["target"]
             t == req[c].path
  <1>1. /\ pc[c] = "call" /\ i \in Ids /\ drive[i].kind = "file"
        /\ drive' = [drive EXCEPT ![i].name = S!Last(t)]
        /\ Outcome(c, reply, Bring(t, i)) /\ UNCHANGED <<moved, crossed>>
    BY DEF Replace, Calling
  <1>2. t \in Paths
    BY CallPaths DEF Replace
  <1>3. Bring(t, i) \in [Paths -> Ids \cup {NoId, Keep}]
    BY <1>1, <1>2 DEF Bring, NoNews
  <1>4. /\ OthersSame(c) /\ cache' = cache /\ ~Misled(c)
        /\ pc'[c] = "remember" /\ news'[c] = Bring(t, i) /\ stage'[c] = "done"
    <2> HIDE DEF i, t
    <2> QED BY <1>1, <1>3, OutcomeIs
  <1>5. At(i, t)
    <2>1. i # NoId
      BY <1>1, IdsAssumption
    <2> QED BY <1>4, <2>1, NotMisled DEF PathAt, Stages
  <1>6. drive' = drive
    <2>1. S!Last(t) = drive[i].name
      <3>1. t \in Strings /\ t # <<>> /\ Leads(drive, i, t)
        BY <1>2, <1>5, PathsAreStrings, AtLeads
      <3>2. ChildOf(drive, i, drive[i].parent, S!Last(t))
        BY <3>1, LeadsByChild
      <3> QED BY <3>2 DEF ChildOf
    <2>2. drive \in [Ids -> Nodes]
      BY DEF Typed, TypeOK
    <2> QED BY <1>1, <2>1, <2>2, SameNode
  <1>7. \A j, p : At(j, p)' <=> At(j, p)
    BY <1>6, AtLeads, AtLeadsNext
  <1>8. \A p \in Paths : news'[c][p] \in Ids => At(news[c][p], p)'
    <2>1. ASSUME NEW p \in Paths, news'[c][p] \in Ids PROVE p = t /\ news'[c][p] = i
      BY <1>2, <1>4, <2>1, BringIs, IdsAssumption
    <2> QED BY <1>5, <1>7, <2>1
  <1> HIDE DEF i, t
  <1> QED BY <1>1, <1>4, <1>7, <1>8, ChangeRight

LEMMA CreateRight ==
    ASSUME Typed, Right, NEW c \in Callers, NEW i \in Ids, NEW reply \in BOOLEAN,
           Create(c, i, reply) \/ Mkdir(c, i, reply), ~astray'
    PROVE  Right'
  <1> DEFINE t == req[c].path
  <1>1. t \in Paths /\ req[c].to = t /\ pc[c] = "call"
    BY CallPaths DEF Create, Mkdir
  <1>2. PICK kind \in {"file", "folder"} :
            Born(c, i, kind) /\ Outcome(c, reply, Bring(t, i)) /\ UNCHANGED <<moved, crossed>>
    BY DEF Create, Mkdir
  <1>3. Bring(t, i) \in [Paths -> Ids \cup {NoId, Keep}]
    BY <1>1 DEF Bring, NoNews
  <1>4. /\ OthersSame(c) /\ cache' = cache /\ ~Misled(c) /\ req'[c] = req[c]
        /\ pc'[c] = "remember" /\ news'[c] = Bring(t, i) /\ stage'[c] = "done"
    <2> HIDE DEF t
    <2> QED BY <1>1, <1>2, <1>3, OutcomeIs
  <1>5. At(ids[c]["parent"], S!Front(t))
    <2>1. ids[c]["parent"] # NoId
      BY <1>2, IdsAssumption DEF Born, Folder
    <2>2. At(ids[c]["parent"], PathAt(c, "parent"))
      BY <1>4, <2>1, NotMisled DEF Stages
    <2> QED BY <1>1, <2>2 DEF PathAt
  <1>6. drive \in [Ids -> Nodes]
    BY DEF Typed, TypeOK
  <1>7. /\ \A j, p : p \in Paths \cup {<<>>} /\ At(j, p) => At(j, p)'
        /\ At(i, req[c].path)'
    BY <1>1, <1>2, <1>4, <1>5, <1>6, BornAt
  <1>8. \A p \in Paths : news'[c][p] \in Ids => At(news[c][p], p)'
    <2>1. ASSUME NEW p \in Paths, news'[c][p] \in Ids
          PROVE  p = req'[c].path /\ news'[c][p] = i
      BY <1>1, <1>4, <2>1, BringIs, IdsAssumption
    <2> QED BY <1>7, <2>1
  <1> HIDE DEF t
  <1> QED BY <1>1, <1>2, <1>4, <1>7, <1>8, ChangeRight

(* A path from one that was moved on.                                      *)
LEMMA FromMoved ==
    ASSUME NEW t \in moved', NEW p \in Paths \cup {<<>>}, t \in Paths, S!IsPrefix(t, p), p # t
    PROVE  p \in Paths /\ Lasting(p)'
  <1>1. p # <<>>
    <2>1. t \in Strings /\ t # <<>> /\ <<>> \in Strings /\ Len(<<>>) = 0
      BY PathsAreStrings, EmptySeq
    <2>2. Len(t) > 0 /\ Len(t) \in Nat
      BY <2>1, LengthOf
    <2>3. ~S!IsPrefix(t, <<>>)
      BY <2>1, <2>2, PrefixByName
    <2> QED BY <2>3
  <1>2. S!IsStrictPrefix(t, p)
    BY DEF S!IsStrictPrefix
  <1> QED BY <1>1, <1>2 DEF Lasting

LEMMA RemoveRight ==
    ASSUME Typed, Right, NEW c \in Callers, NEW reply \in BOOLEAN, Remove(c, reply),
           ~astray'
    PROVE  Right'
  <1> DEFINE i == ids[c]["target"]
             t == req[c].path
  <1>1. t \in Paths /\ pc[c] = "call"
    BY CallPaths DEF Remove
  <1>2. /\ Live(i)
        /\ drive' = [j \in Ids |-> IF j \in Subtree(i) THEN Gone ELSE drive[j]]
        /\ Outcome(c, reply, Bring(t, NoId))
        /\ moved' = moved \cup {t} /\ crossed' = Crossed(c)
    BY DEF Remove
  <1>3. Bring(t, NoId) \in [Paths -> Ids \cup {NoId, Keep}]
    BY <1>1 DEF Bring, NoNews
  <1>4. /\ OthersSame(c) /\ cache' = cache /\ ~Misled(c)
        /\ pc'[c] = "remember" /\ news'[c] = Bring(t, NoId) /\ stage'[c] = "done"
    <2> HIDE DEF i, t
    <2> QED BY <1>1, <1>2, <1>3, OutcomeIs
  <1>5. At(i, t) /\ i \in Ids
    <2>1. i # NoId
      BY <1>2, IdsAssumption DEF Live
    <2>2. At(i, t)
      BY <1>4, <2>1, NotMisled DEF PathAt, Stages
    <2>3. t \in Strings /\ t # <<>> /\ Leads(drive, i, t)
      BY <1>1, <2>2, PathsAreStrings, AtLeads
    <2> QED BY <2>2, <2>3, LeadsByChild DEF ChildOf
  <1> HIDE DEF i, t
  <1>6. \A j \in Ids \ Subtree(i) : drive'[j] = drive[j]
    BY <1>2
  <1>7. ASSUME NEW j, NEW p \in Paths \cup {<<>>}, At(j, p)
        PROVE  \/ At(j, p)'
               \/ p \in Paths /\ Lasting(p)'
               \/ p \in Paths /\ p = t /\ news'[c][p] = NoId /\ crossed' = Crossed(c)
    <2>0. p \in Strings /\ t \in Strings
      BY <1>1, PathsAreStrings
    <2>1. CASE ~S!IsPrefix(t, p)
      BY <1>5, <1>6, <1>7, <2>0, <2>1, MovedPath
    <2>2. CASE p = t
      BY <1>1, <1>2, <1>4, <2>2, BringIs
    <2>3. CASE S!IsPrefix(t, p) /\ p # t
      BY <1>1, <1>2, <2>3, FromMoved
    <2> QED BY <2>1, <2>2, <2>3
  <1>8. \A p \in Paths : news'[c][p] \notin Ids
    BY <1>1, <1>4, BringIs, IdsAssumption
  <1>9. crossed \subseteq crossed' /\ moved \subseteq moved'
    BY <1>2 DEF Crossed
  <1> QED BY <1>1, <1>4, <1>7, <1>8, <1>9, ChangeRight DEF t

(* What Rename does to Drive when no id misleads it.                       *)
LEMMA RenamedAt ==
    ASSUME Typed, NEW c \in Callers, Calling(c, "rename"), ~Misled(c),
           CanMove(c, ids[c]["target"]), drive' = Relocated(c, ids[c]["target"]),
           UNCHANGED ids[c], UNCHANGED req[c]
    PROVE  /\ \A j, p : p \in Paths \cup {<<>>} /\ At(j, p)
                 /\ (S!IsPrefix(req[c].path, p) => req[c].path = req[c].to) => At(j, p)'
           /\ At(ids[c]["target"], req[c].to)'
  <1> DEFINE i == ids[c]["target"]
             t == req[c].path
             u == req[c].to
             to == IF ids[c]["source"] = NoId THEN drive[i].parent ELSE ids[c]["parent"]
  <1>1. t \in Paths /\ u \in Paths /\ pc[c] = "call"
    BY CallPaths
  <1>2. t \in Strings /\ t # <<>> /\ u \in Strings /\ u # <<>>
    BY <1>1, PathsAreStrings
  <1>3. i \in Ids /\ Live(i) /\ i # NoId /\ drive[i].kind \in {"file", "folder"}
    BY IdsAssumption DEF CanMove, Live
  <1>4. At(i, t)
    BY <1>3, NotMisled DEF PathAt, Stages
  <1>5. /\ ChildOf(drive, i, drive[i].parent, S!Last(t))
        /\ Leads(drive, drive[i].parent, S!Front(t))
    BY <1>2, <1>4, AtLeads, LeadsByChild
  <1>6. /\ drive \in [Ids -> Nodes]
        /\ ids[c]["source"] # NoId => S!Front(t) # S!Front(u)
        /\ ids[c]["source"] # NoId \/ S!Front(t) = S!Front(u)
    BY <1>1 DEF Typed, TypeOK, Sourced, Orderly, Calling
  <1>7. \A j \in Ids \ {i} : drive'[j] = drive[j]
    BY <1>6 DEF Relocated
  <1>8. /\ drive'[i].kind = drive[i].kind /\ drive'[i].parent = to
        /\ drive'[i].name = S!Last(u)
    <2>1. drive[i] \in [parent : Ids \cup {Root}, name : Names, kind : {"file", "folder"}]
      BY <1>3, <1>6, LiveNode
    <2>2. drive'[i] = [drive[i] EXCEPT !.name = S!Last(u), !.parent = to]
      BY <1>3, <1>6, <2>1 DEF Relocated
    <2> QED BY <2>1, <2>2
  <1>9. CASE t = u
    <2>1. ids[c]["source"] = NoId /\ S!Last(u) = drive[i].name
      BY <1>5, <1>6, <1>9 DEF ChildOf
    <2>2. drive' = drive
      <3>1. drive' = [drive EXCEPT ![i].name = drive[i].name]
        <4>1. drive[i] \in [parent : Ids \cup {Root}, name : Names, kind : {"file", "folder"}]
          BY <1>3, <1>6, LiveNode
        <4> QED BY <1>3, <1>6, <2>1, <4>1 DEF Relocated
      <3> QED BY <1>3, <1>6, <3>1, SameNode
    <2>3. \A j, p : At(j, p)' <=> At(j, p)
      BY <2>2, AtLeads, AtLeadsNext
    <2> QED BY <1>4, <1>9, <2>3
  <1>10. CASE t # u
    <2>1. ASSUME NEW j, NEW p \in Strings, At(j, p), ~S!IsPrefix(t, p) PROVE At(j, p)'
      BY <1>2, <1>3, <1>4, <1>7, <2>1, MovedPath
    <2>2. Leads(drive', to, S!Front(u))
      <3>1. CASE ids[c]["source"] = NoId
        <4>1. ~S!IsPrefix(t, S!Front(t))
          <5>1. /\ Len(t) \in Nat \ {0} /\ S!Front(t) \in Strings
                /\ Len(S!Front(t)) = Len(t) - 1
            BY <1>2, FrontIs
          <5> QED BY <1>2, <5>1, PrefixByName
        <4>2. ASSUME NEW j, NEW p, j = drive[i].parent, p = S!Front(t)
              PROVE  Leads(drive', j, p)
          <5>1. At(j, p) /\ p \in Strings /\ ~S!IsPrefix(t, p)
            BY <1>2, <1>5, <4>1, <4>2, AtLeads, FrontIs
          <5> QED BY <2>1, <5>1, AtLeadsNext
        <4> QED BY <1>6, <3>1, <4>2
      <3>2. CASE ids[c]["source"] # NoId
        <4>1. to = ids[c]["parent"] /\ Folder(to) /\ to \notin Subtree(i)
          BY <3>2 DEF CanMove
        <4>2. At(to, S!Front(u))
          <5>1. to # NoId
            BY <4>1, IdsAssumption DEF Folder
          <5> QED BY <4>1, <5>1, NotMisled DEF PathAt, Stages
        <4>3. S!Front(u) \in Strings
          BY <1>2, FrontIs
        <4>4. PICK line : Line(drive, line, S!Front(u)) /\ line[Len(S!Front(u))] = to
          BY <4>2, AtLeads DEF Leads
        <4>5. ASSUME NEW k \in 1..Len(S!Front(u)) PROVE drive'[line[k]] = drive[line[k]]
          <5>1. line[k] # i
            BY <4>1, <4>3, <4>4, LineInside
          <5>2. line[k] \in Ids
            BY <4>4 DEF Line, ChildOf
          <5> QED BY <1>7, <5>1, <5>2
        <4> HIDE DEF to
        <4> QED BY <4>3, <4>4, <4>5, LineKept
      <3> QED BY <3>1, <3>2
    <2>3. ChildOf(drive', i, to, S!Last(u))
      BY <1>3, <1>8 DEF ChildOf
    <2>4. Leads(drive', i, u)
      <3> HIDE DEF to, i, u
      <3> QED BY <1>2, <2>2, <2>3, ChildLeads
    <2>5. At(ids[c]["target"], req[c].to)'
      BY <2>4, AtLeadsNext
    <2>6. \A p \in Paths \cup {<<>>} : p \in Strings
      BY PathsAreStrings
    <2> QED BY <1>10, <2>1, <2>5, <2>6
  <1> QED BY <1>9, <1>10

LEMMA RenameRight ==
    ASSUME Typed, Right, NEW c \in Callers, NEW reply \in BOOLEAN, Rename(c, reply),
           ~astray'
    PROVE  Right'
  <1> DEFINE i == ids[c]["target"]
             t == req[c].path
             u == req[c].to
             new == [NoNews EXCEPT ![t] = NoId, ![u] = i]
  <1>1. t \in Paths /\ u \in Paths /\ pc[c] = "call" /\ Calling(c, "rename")
    BY CallPaths DEF Rename
  <1>2. /\ CanMove(c, i) /\ drive' = Relocated(c, i) /\ Outcome(c, reply, new)
        /\ moved' = moved \cup {t} /\ crossed' = Crossed(c)
    BY DEF Rename
  <1>3. i \in Ids
    BY <1>2 DEF CanMove
  <1>4. /\ new \in [Paths -> Ids \cup {NoId, Keep}]
        /\ \A p \in Paths : new[p] = IF p = u THEN i ELSE IF p = t THEN NoId ELSE Keep
    BY <1>1, <1>3 DEF NoNews
  <1>5. /\ OthersSame(c) /\ cache' = cache /\ ~Misled(c)
        /\ req'[c] = req[c] /\ ids'[c] = ids[c]
        /\ pc'[c] = "remember" /\ news'[c] = new /\ stage'[c] = "done"
    <2> HIDE DEF i, t, u, new
    <2> QED BY <1>1, <1>2, <1>4, OutcomeIs
  <1>6. /\ \A j, p : p \in Paths \cup {<<>>} /\ At(j, p)
              /\ (S!IsPrefix(t, p) => t = u) => At(j, p)'
        /\ At(ids[c]["target"], req[c].to)'
    BY <1>1, <1>2, <1>5, RenamedAt
  <1>7. ASSUME NEW j, NEW p \in Paths \cup {<<>>}, At(j, p)
        PROVE  \/ At(j, p)'
               \/ p \in Paths /\ Lasting(p)'
               \/ p \in Paths /\ p = t /\ news'[c][p] = NoId /\ crossed' = Crossed(c)
    <2> HIDE DEF i, t, u, new
    <2>1. CASE ~S!IsPrefix(t, p) \/ t = u
      BY <1>6, <1>7, <2>1
    <2>2. CASE p = t /\ t # u
      BY <1>1, <1>2, <1>4, <1>5, <2>2
    <2>3. CASE S!IsPrefix(t, p) /\ p # t
      BY <1>1, <1>2, <2>3, FromMoved
    <2> QED BY <2>1, <2>2, <2>3
  <1>8. \A p \in Paths : news'[c][p] \in Ids => At(news[c][p], p)'
    <2>1. ASSUME NEW p \in Paths, news'[c][p] \in Ids
          PROVE  p = req'[c].to /\ news'[c][p] = ids'[c]["target"]
      <3> HIDE DEF new
      <3> QED BY <1>4, <1>5, <2>1, IdsAssumption
    <2> QED BY <1>6, <2>1
  <1>9. crossed \subseteq crossed' /\ moved \subseteq moved'
    BY <1>2 DEF Crossed
  <1> HIDE DEF i, u, new
  <1> QED BY <1>1, <1>5, <1>7, <1>8, <1>9, ChangeRight

(* A behaviour that has gone astray stays so.                              *)
LEMMA AstrayStays == ASSUME Typed, [Next]_vars, ~astray' PROVE ~astray
  <1>1. CASE Mount
    BY <1>1 DEF Mount, history
  <1>2. ASSUME NEW c \in Callers, Step(c) PROVE ~astray
    BY <1>2
    DEF Step, Unmount, Begin, Close, LookWhole, Look, QueryFails, WalkEnds, Query, Stat,
        List, Replace, Remove, Rename, Create, Mkdir, CallFails, Remember, Remembered,
        Outcome, aside, history
  <1>3. CASE UNCHANGED vars
    BY <1>3 DEF vars, history
  <1> QED BY <1>1, <1>2, <1>3 DEF Next

(* What is right stays right while nothing but the mount changes.          *)
LEMMA StillRight ==
    ASSUME Right, UNCHANGED <<drive, moved, crossed>>, UNCHANGED <<pc, req, walk, news>>,
           cache' = Empty \/ cache' = cache
    PROVE  Right'
  <1>1. /\ \A i, p : At(i, p)' <=> At(i, p)
        /\ \A p : Lasting(p) => Lasting(p)'
        /\ \A i, p : Placed(i, p) => Placed(i, p)'
    BY QuietKeeps
  <1>2. CacheRight'
    BY <1>1 DEF Right, CacheRight, Empty
  <1>3. ASSUME NEW c \in Callers PROVE WalkRight(c)' /\ IdsRight(c)' /\ NewsRight(c)'
    <2>1. /\ Walking(c)' = Walking(c) /\ Using(c)' = Using(c) /\ Wanted(c)' = Wanted(c)
          /\ \A s \in Stages : PathAt(c, s)' = PathAt(c, s)
      BY DEF Walking, Using, Wanted, PathAt, walk
    <2>2. WalkRight(c)'
      BY <1>1, <2>1 DEF Right, WalkRight, walk
    <2>3. IdsRight(c)'
      BY <1>1, <2>1 DEF Right, IdsRight, walk
    <2>4. NewsRight(c)'
      BY <1>1 DEF Right, NewsRight
    <2> QED BY <2>2, <2>3, <2>4
  <1> QED BY <1>2, <1>3 DEF Right

LEMMA MountRight ==
    ASSUME Typed, Right, Mount \/ \E c \in Callers : Unmount(c)
    PROVE  Right'
  <1>1. /\ UNCHANGED <<drive, moved, crossed>> /\ UNCHANGED <<pc, req, walk, news>>
        /\ cache' = Empty
    BY DEF Mount, Unmount, history
  <1> QED BY <1>1, StillRight

LEMMA StepRight ==
    ASSUME Typed, Right, NEW c \in Callers, Step(c), ~astray'
    PROVE  Right'
  <1>1. CASE Unmount(c)
    BY <1>1, MountRight
  <1>2. CASE Close(c) \/ \E r \in Requests : Begin(c, r)
    BY <1>2, BeginRight
  <1>3. CASE LookWhole(c) \/ Look(c) \/ QueryFails(c) \/ WalkEnds(c)
    BY <1>3, WalkedRight
  <1>4. CASE \E i \in Ids : Query(c, i)
    BY <1>4, QueryRight
  <1>5. CASE Stat(c)
    BY <1>5, StatRight
  <1>6. CASE List(c)
    BY <1>6, ListRight
  <1>7. ASSUME NEW reply \in BOOLEAN, Replace(c, reply) PROVE Right'
    BY <1>7, ReplaceRight
  <1>8. ASSUME NEW reply \in BOOLEAN, Remove(c, reply) PROVE Right'
    BY <1>8, RemoveRight
  <1>9. ASSUME NEW reply \in BOOLEAN, Rename(c, reply) PROVE Right'
    BY <1>9, RenameRight
  <1>10. ASSUME NEW reply \in BOOLEAN, NEW i \in Ids, Create(c, i, reply) \/ Mkdir(c, i, reply)
         PROVE  Right'
    BY <1>10, CreateRight
  <1>11. CASE CallFails(c)
    BY <1>11, ReturnRight DEF CallFails
  <1>12. CASE \E p \in Paths : Remember(c, p)
    BY <1>12, RememberRight
  <1>13. CASE Remembered(c)
    BY <1>13, RememberedRight
  <1> QED BY <1>1, <1>2, <1>3, <1>4, <1>5, <1>6, <1>7, <1>8, <1>9, <1>10, <1>11, <1>12,
             <1>13 DEF Step

LEMMA InitInv == Init => Inv
  <1> SUFFICES ASSUME Init PROVE Inv
    OBVIOUS
  <1>1. Typed
    BY InitTyped
  <1>2. CacheRight
    BY DEF Init, Empty, CacheRight
  <1>3. ASSUME NEW c \in Callers PROVE WalkRight(c) /\ IdsRight(c) /\ NewsRight(c)
    <2>1. pc[c] = "idle" /\ news[c] = NoNews
      BY DEF Init
    <2> QED BY <2>1, IdsAssumption DEF WalkRight, IdsRight, NewsRight, Using, Walking, NoNews
  <1> QED BY <1>1, <1>2, <1>3 DEF Inv, Right

LEMMA NextInv == Inv /\ [Next]_vars => Inv'
  <1> SUFFICES ASSUME Inv, [Next]_vars PROVE Inv'
    OBVIOUS
  <1>1. Typed /\ Typed'
    BY NextTyped DEF Inv
  <1>2. ASSUME ~astray' PROVE Right'
    <2>1. Right
      BY <1>1, <1>2, AstrayStays DEF Inv
    <2>2. CASE Mount
      BY <1>1, <2>1, <2>2, MountRight
    <2>3. CASE \E c \in Callers : Step(c)
      BY <1>1, <1>2, <2>1, <2>3, StepRight
    <2>4. CASE UNCHANGED vars
      <3>1. UNCHANGED <<drive, moved, crossed>> /\ UNCHANGED <<pc, req, walk, news>>
            /\ cache' = cache
        BY <2>4 DEF vars, history
      <3> QED BY <2>1, <3>1, StillRight
    <2> QED BY <2>2, <2>3, <2>4 DEF Next
  <1> QED BY <1>1, <1>2 DEF Inv

LEMMA InvAlways == Spec => []Inv
  BY InitInv, NextInv, PTL DEF Spec

(* However the threads' walks, moves and removals interleave, the cache is *)
(* wrong only about a path below one that was moved, one about to be       *)
(* forgotten, and one that was moved while another call was about it.      *)
THEOREM CacheStaleOnlyBelowMoved == Spec => []StaleOnlyBelowMoved
  <1>1. Inv => StaleOnlyBelowMoved
    BY DEF Inv, Right, CacheRight, Placed, Stale, StaleOnlyBelowMoved
  <1> QED BY <1>1, InvAlways, PTL

(* A call that has all its ids is ended, or answered, by its own step.     *)
LEMMA PutStep ==
    ASSUME Typed, Next, NEW c \in Callers, Calling(c, "put"), pc'[c] = "remember"
    PROVE  Replace(c, TRUE) \/ \E i \in Ids : Create(c, i, TRUE)
  <1>1. pc[c] = "call" /\ req[c].op = "put" /\ Shaped
    BY TypeParts DEF Calling, Typed
  <1>2. ~Mount
    BY <1>1 DEF Mount
  <1>3. ASSUME NEW d \in Callers \ {c}, Step(d) PROVE pc'[c] = pc[c]
    BY <1>1, <1>3
    DEF Step, Unmount, Begin, Close, LookWhole, Look, QueryFails, WalkEnds, Query, Stat,
        List, Replace, Remove, Rename, Create, Mkdir, CallFails, Remember, Remembered,
        Outcome, Resolving, Resolved, Unresolved, Return, Goto, Shaped
  <1>4. Step(c)
    BY <1>1, <1>2, <1>3 DEF Next
  <1>5. ~Return(c)
    BY <1>1 DEF Return, Goto, Shaped
  <1>6. PICK reply \in BOOLEAN : Replace(c, reply) \/ \E i \in Ids : Create(c, i, reply)
    BY <1>1, <1>4, <1>5
    DEF Step, Unmount, Begin, Close, LookWhole, Look, QueryFails, WalkEnds, Query, Stat,
        List, Remove, Rename, Mkdir, CallFails, Remember, Remembered, Calling
  <1>7. reply = TRUE
    BY <1>5, <1>6 DEF Replace, Create, Outcome
  <1> QED BY <1>6, <1>7

LEMMA UploadStep ==
    ASSUME Inv, Next, NEW c \in Callers, ~astray, Calling(c, "put"), pc'[c] = "remember",
           ~Unsettled(req[c].path)
    PROVE  \E i \in Ids : Hits(c, i)
  <1> DEFINE t == req[c].path
  <1>1. Typed /\ Right /\ Using(c)
    BY DEF Inv, Using, Calling
  <1>2. t \in Paths /\ req[c].to = t
    BY <1>1, CallPaths
  <1>3. /\ \A s \in Stages : ids[c][s] # NoId => Placed(ids[c][s], PathAt(c, s))
        /\ drive \in [Ids -> Nodes]
    BY <1>1 DEF Right, IdsRight, Typed, TypeOK
  <1>4. CASE Replace(c, TRUE)
    <2> DEFINE i == ids[c]["target"]
    <2>1. i \in Ids /\ drive[i].kind = "file" /\ drive' = [drive EXCEPT ![i].name = S!Last(t)]
      BY <1>4 DEF Replace
    <2>2. At(i, t)
      <3>1. Placed(i, t)
        BY <1>3, <2>1, IdsAssumption DEF PathAt, Stages
      <3> QED BY <3>1 DEF Placed
    <2>3. drive'[i].kind = "file"
      <3>1. drive[i] \in [parent : Ids \cup {Root}, name : Names, kind : {"file", "folder"}]
        BY <1>3, <2>1, LiveNode
      <3>2. drive'[i] = [drive[i] EXCEPT !.name = S!Last(t)]
        BY <1>3, <2>1
      <3> QED BY <2>1, <3>1, <3>2
    <2> QED BY <2>1, <2>2, <2>3 DEF Hits
  <1>5. ASSUME NEW i \in Ids, Create(c, i, TRUE) PROVE Hits(c, i)
    <2>1. /\ Born(c, i, "file") /\ ids[c]["target"] = NoId /\ pc[c] = "call"
          /\ Outcome(c, TRUE, Bring(t, i))
      BY <1>5 DEF Create, Calling
    <2>2. req'[c] = req[c]
      BY <2>1 DEF Outcome
    <2>3. At(ids[c]["parent"], S!Front(t))
      <3>1. ids[c]["parent"] # NoId
        BY <2>1, IdsAssumption DEF Born, Folder
      <3>2. Placed(ids[c]["parent"], S!Front(t))
        BY <1>2, <1>3, <3>1 DEF PathAt, Stages
      <3>3. S!Front(t) \in Paths /\ Unsettled(S!Front(t)) => Unsettled(t)
        BY <1>1, <1>2, PathsAreStrings, BelowUnsettled, LastingIsUnsettled
      <3> QED BY <3>2, <3>3 DEF Placed
    <2>4. drive'[i].kind = "file" /\ At(i, req[c].path)'
      BY <1>2, <1>3, <2>1, <2>2, <2>3, BornAt
    <2>5. drive[i] = Unborn
      BY <2>1 DEF Born
    <2> QED BY <2>1, <2>4, <2>5 DEF Hits
  <1> QED BY <1>1, <1>4, <1>5, PutStep

(* An upload that Drive answers has replaced the file that is at its path, *)
(* or made a new one there, unless that path is unsettled.                 *)
THEOREM UploadsHitTheirPath == Spec => UploadHitsItsPath
  <1>1. Inv /\ [Next]_vars =>
            [\A c \in Callers :
                ~astray /\ Calling(c, "put") /\ pc'[c] = "remember"
                    /\ ~Unsettled(req[c].path) => \E i \in Ids : Hits(c, i)]_vars
    BY UploadStep
  <1> QED BY <1>1, InvAlways, PTL DEF Spec, UploadHitsItsPath
=============================================================================
