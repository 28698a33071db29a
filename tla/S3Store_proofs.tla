---------------------------- MODULE S3Store_proofs ----------------------------
(***************************************************************************)
(* For any number of callers and any set of paths: whatever is done to     *)
(* other paths meanwhile, a rename loses nothing wherever it stops, and    *)
(* has moved everything when it says so; Remove deletes what it was asked  *)
(* to and nothing else.                                                    *)
(*                                                                         *)
(* The invariant says where a rename's objects are at each of its labels,  *)
(* and that a caller nobody has disturbed is alone with its region of the  *)
(* bucket: the frame is that a step writes nothing outside of what its own *)
(* call may touch.  What is needed of paths comes first: below the source  *)
(* and below the destination are two disjoint places, and Target is one to *)
(* one from the one into the other.                                        *)
(***************************************************************************)
EXTENDS S3Store, SequenceTheorems, TLAPS

Names == STRING \ {""}
KeyNames == Names \cup {""}

(* What Rename moves lies at or below its source.                          *)
Within(p, k) == S!IsPrefix(p, k)

-----------------------------------------------------------------------------
(* Keys and prefixes.                                                      *)

(* A path is a sequence of proper names, and no key is the empty one.      *)
LEMMA PathsAreNamed == \A p \in Paths : p \in Seq(Names) /\ p \in Seq(KeyNames) /\ p # <<>>
<1>1. Names \subseteq KeyNames
  BY DEF KeyNames
<1>2. \A p \in Paths : p \in Seq(Names) /\ p # <<>>
  BY PathsAssumption DEF Names
<1> QED BY <1>1, <1>2, SeqMonotonic

(* A placeholder's last name is no proper one, so that it is no path.      *)
LEMMA PlaceholderIsNoPath ==
    \A p \in Paths : Placeholder(p) \in Seq(KeyNames) /\ Placeholder(p) \notin Seq(Names)
<1> SUFFICES ASSUME NEW p \in Paths
             PROVE  Placeholder(p) \in Seq(KeyNames) /\ Placeholder(p) \notin Seq(Names)
  OBVIOUS
<1>1. p \in Seq(KeyNames) /\ "" \in KeyNames
  BY PathsAreNamed DEF KeyNames
<1>2. /\ Append(p, "") \in Seq(KeyNames) /\ Len(Append(p, "")) = Len(p) + 1
      /\ Append(p, "")[Len(p) + 1] = ""
  BY <1>1, AppendProperties
<1>3. Len(p) + 1 \in 1..(Len(p) + 1)
  <2>1. Len(p) \in Nat
    BY <1>1, LenProperties
  <2> QED BY <2>1
<1>4. ASSUME Append(p, "") \in Seq(Names) PROVE FALSE
  <2>1. Append(p, "")[Len(p) + 1] \in Names
    BY <1>2, <1>3, <1>4, ElementOfSeq
  <2> QED BY <1>2, <2>1 DEF Names
<1> QED BY <1>2, <1>4 DEF Placeholder

LEMMA KeysAreNamed == \A k \in Keys : k \in Seq(KeyNames)
BY PathsAreNamed, PlaceholderIsNoPath DEF Keys

LEMMA MarksAreApart ==
    \A p \in Paths : Placeholder(p) \in Keys /\ Placeholder(p) \notin Paths
BY PathsAreNamed, PlaceholderIsNoPath DEF Keys

(* Being within a path, name by name.                                      *)
LEMMA WithinByName ==
    ASSUME NEW p \in Seq(KeyNames), NEW k \in Seq(KeyNames)
    PROVE  Within(p, k) <=> Len(p) <= Len(k) /\ \A i \in 1..Len(p) : p[i] = k[i]
<1>1. Len(p) \in Nat /\ Len(k) \in Nat
  BY LenProperties
<1>2. /\ SubSeq(p, 1, Len(p)) = p
  BY SubSeqFull
<1>3. CASE Len(p) <= Len(k)
  <2>1. \A i \in 1..Len(p) : k[i] \in KeyNames
    BY <1>1, <1>3, ElementOfSeq
  <2>2. /\ SubSeq(k, 1, Len(p)) \in Seq(KeyNames)
        /\ Len(SubSeq(k, 1, Len(p))) = Len(p)
        /\ \A i \in 1..Len(p) : SubSeq(k, 1, Len(p))[i] = k[i]
    <3>1. /\ SubSeq(k, 1, Len(p)) \in Seq(KeyNames)
          /\ Len(SubSeq(k, 1, Len(p))) = IF 1 <= Len(p) THEN Len(p) - 1 + 1 ELSE 0
          /\ \A i \in 1..(Len(p) - 1 + 1) : SubSeq(k, 1, Len(p))[i] = k[1 + i - 1]
      BY <1>1, <2>1, SubSeqProperties, Z3
    <3> QED BY <1>1, <3>1
  <2>3. SubSeq(k, 1, Len(p)) = p <=> \A i \in 1..Len(p) : p[i] = k[i]
    BY <2>2, SeqEqual, Zenon
  <2> QED BY <1>2, <1>3, <2>3 DEF Within, S!IsPrefix
<1>4. CASE ~(Len(p) <= Len(k))
  BY <1>4 DEF Within, S!IsPrefix
<1> QED BY <1>3, <1>4

LEMMA AppendByName ==
    ASSUME NEW T, NEW p \in Seq(T), NEW e \in T
    PROVE  /\ Append(p, e) \in Seq(T) /\ Len(Append(p, e)) = Len(p) + 1
           /\ \A i \in 1..Len(p) : Append(p, e)[i] = p[i]
<1>1. Append(p, e) \in Seq(T) /\ Len(Append(p, e)) = Len(p) + 1
  OBVIOUS
<1>2. \A i \in 1..Len(p) : Append(p, e)[i] = p[i]
  BY LenProperties
<1> QED BY <1>1, <1>2

LEMMA PathIsWithinItself == \A p \in Paths : Within(p, p) /\ Within(p, Placeholder(p))
<1> SUFFICES ASSUME NEW p \in Paths PROVE Within(p, p) /\ Within(p, Placeholder(p))
  OBVIOUS
<1>1. p \in Seq(KeyNames) /\ Len(p) \in Nat /\ Len(p) <= Len(p)
  BY PathsAreNamed, LenProperties
<1>2. Within(p, p)
  BY <1>1, WithinByName
<1>3. /\ Placeholder(p) \in Seq(KeyNames) /\ Len(Placeholder(p)) = Len(p) + 1
      /\ \A i \in 1..Len(p) : p[i] = Placeholder(p)[i]
  <2>1. "" \in KeyNames
    BY DEF KeyNames
  <2>2. /\ Append(p, "") \in Seq(KeyNames) /\ Len(Append(p, "")) = Len(p) + 1
        /\ \A i \in 1..Len(p) : Append(p, "")[i] = p[i]
    BY <1>1, <2>1, AppendByName
  <2> QED BY <2>2 DEF Placeholder
<1>4. Len(p) <= Len(Placeholder(p))
  BY <1>1, <1>3
<1> QED BY <1>1, <1>2, <1>3, <1>4, WithinByName

(* Of two prefixes of one key, one is a prefix of the other: what lies     *)
(* within the destination does not lie within the source.                  *)
LEMMA PrefixesCompare ==
    ASSUME NEW p \in Paths, NEW q \in Paths, NEW k \in Keys,
           Within(p, k), Within(q, k)
    PROVE  Within(p, q) \/ Within(q, p)
<1>1. /\ p \in Seq(KeyNames) /\ q \in Seq(KeyNames) /\ k \in Seq(KeyNames)
      /\ Len(p) \in Nat /\ Len(q) \in Nat
  BY PathsAreNamed, KeysAreNamed, LenProperties
<1>2. /\ \A i \in 1..Len(p) : p[i] = k[i]
      /\ \A i \in 1..Len(q) : q[i] = k[i]
  BY <1>1, WithinByName
<1>3. CASE Len(p) <= Len(q)
  <2>1. \A i \in 1..Len(p) : p[i] = q[i]
    BY <1>1, <1>2, <1>3
  <2> QED BY <1>1, <1>3, <2>1, WithinByName
<1>4. CASE ~(Len(p) <= Len(q))
  <2>1. Len(q) <= Len(p) /\ \A i \in 1..Len(q) : q[i] = p[i]
    BY <1>1, <1>2, <1>4
  <2> QED BY <1>1, <2>1, WithinByName
<1> QED BY <1>3, <1>4

LEMMA ApartIsDisjoint ==
    ASSUME NEW r \in Requests, Apart(r), NEW k \in Keys, Within(r.to, k)
    PROVE  ~Within(r.path, k)
BY PrefixesCompare DEF Requests, Apart, Within

(* A key with one prefix replaced by another, name by name.                *)
Spliced(to, path, k) == to \o SubSeq(k, Len(path) + 1, Len(k))

IsSpliced(t, to, path, k) ==
    /\ Len(t) = Len(to) + (Len(k) - Len(path))
    /\ \A i \in 1..Len(to) : t[i] = to[i]
    /\ \A i \in 1..(Len(k) - Len(path)) : t[Len(to) + i] = k[Len(path) + i]

LEMMA SplicedByName ==
    ASSUME NEW T, NEW to \in Seq(T), NEW path \in Seq(KeyNames), NEW k \in Seq(T),
           Len(path) <= Len(k)
    PROVE  /\ Spliced(to, path, k) \in Seq(T)
           /\ IsSpliced(Spliced(to, path, k), to, path, k)
<1> DEFINE rest == SubSeq(k, Len(path) + 1, Len(k))
           t == Spliced(to, path, k)
<1>1. Len(path) \in Nat /\ Len(k) \in Nat /\ Len(to) \in Nat
  BY LenProperties
<1>2. \A i \in (Len(path) + 1)..Len(k) : k[i] \in T
  BY <1>1, ElementOfSeq
<1>3. /\ rest \in Seq(T)
      /\ Len(rest) = IF Len(path) + 1 <= Len(k) THEN Len(k) - (Len(path) + 1) + 1 ELSE 0
      /\ \A i \in 1..(Len(k) - (Len(path) + 1) + 1) : rest[i] = k[Len(path) + 1 + i - 1]
  BY <1>1, <1>2, SubSeqProperties, Z3
<1>4. /\ rest \in Seq(T) /\ Len(rest) = Len(k) - Len(path)
      /\ \A i \in 1..(Len(k) - Len(path)) : rest[i] = k[Len(path) + i]
  BY <1>1, <1>3
<1>5. /\ t \in Seq(T) /\ Len(t) = Len(to) + Len(rest)
      /\ \A i \in 1..(Len(to) + Len(rest)) :
            t[i] = IF i <= Len(to) THEN to[i] ELSE rest[i - Len(to)]
  BY <1>4, ConcatProperties, Zenon DEF Spliced
<1> HIDE DEF rest, t
<1>6. \A i \in 1..Len(to) : t[i] = to[i]
  BY <1>1, <1>4, <1>5
<1>7. ASSUME NEW i \in 1..(Len(k) - Len(path)) PROVE t[Len(to) + i] = k[Len(path) + i]
  <2>1. /\ Len(to) + i \in 1..(Len(to) + Len(rest)) /\ ~(Len(to) + i <= Len(to))
        /\ Len(to) + i - Len(to) = i
    BY <1>1, <1>4
  <2> QED BY <1>4, <1>5, <2>1
<1>8. Len(t) = Len(to) + (Len(k) - Len(path))
  BY <1>4, <1>5
<1> QED BY <1>5, <1>6, <1>7, <1>8, Zenon DEF t, IsSpliced

(* So Target: the destination's names, then the rest of the key's.         *)
LEMMA TargetByName ==
    ASSUME NEW T, NEW r \in Requests, NEW k \in Keys, k \in Seq(T), r.to \in Seq(T),
           Within(r.path, k)
    PROVE  Target(r, k) \in Seq(T) /\ IsSpliced(Target(r, k), r.to, r.path, k)
<1>1. r.path \in Seq(KeyNames) /\ k \in Seq(KeyNames)
  BY PathsAreNamed, KeysAreNamed DEF Requests
<1>2. Len(r.path) <= Len(k)
  BY <1>1, WithinByName
<1>3. Target(r, k) = Spliced(r.to, r.path, k)
  BY DEF Target, Spliced
<1>4. /\ Spliced(r.to, r.path, k) \in Seq(T)
      /\ IsSpliced(Spliced(r.to, r.path, k), r.to, r.path, k)
  BY <1>1, <1>2, SplicedByName
<1> QED BY <1>3, <1>4

LEMMA TargetIsWithin ==
    ASSUME NEW r \in Requests, NEW k \in Keys, Within(r.path, k)
    PROVE  /\ Within(r.to, Target(r, k))
           /\ k \in Paths => Target(r, k) \in Seq(Names)
<1>1. /\ r.path \in Paths /\ r.to \in Paths
      /\ r.path \in Seq(KeyNames) /\ r.to \in Seq(KeyNames) /\ k \in Seq(KeyNames)
      /\ r.to \in Seq(Names)
  BY PathsAreNamed, KeysAreNamed DEF Requests
<1>2. /\ Len(r.path) <= Len(k) /\ Len(r.path) \in Nat /\ Len(k) \in Nat /\ Len(r.to) \in Nat
  BY <1>1, WithinByName, LenProperties
<1>3. Target(r, k) \in Seq(KeyNames) /\ IsSpliced(Target(r, k), r.to, r.path, k)
  BY <1>1, TargetByName
<1>4. Len(r.to) <= Len(Target(r, k)) /\ \A i \in 1..Len(r.to) : Target(r, k)[i] = r.to[i]
  BY <1>2, <1>3 DEF IsSpliced
<1>5. Within(r.to, Target(r, k))
  BY <1>1, <1>3, <1>4, WithinByName
<1>6. ASSUME k \in Paths PROVE Target(r, k) \in Seq(Names)
  BY <1>1, <1>6, PathsAreNamed, TargetByName
<1> QED BY <1>5, <1>6

(* No two objects of a rename go to one place.                             *)
LEMMA TargetIsOneToOne ==
    ASSUME NEW r \in Requests, NEW k \in Keys, NEW l \in Keys,
           Within(r.path, k), Within(r.path, l), Target(r, k) = Target(r, l)
    PROVE  k = l
<1> DEFINE p == r.path
           t == Target(r, k)
<1>1. /\ p \in Seq(KeyNames) /\ r.to \in Seq(KeyNames)
      /\ k \in Seq(KeyNames) /\ l \in Seq(KeyNames)
  BY PathsAreNamed, KeysAreNamed DEF Requests
<1>2. /\ Len(p) <= Len(k) /\ \A i \in 1..Len(p) : p[i] = k[i]
      /\ Len(p) <= Len(l) /\ \A i \in 1..Len(p) : p[i] = l[i]
  BY <1>1, WithinByName
<1>3. Len(p) \in Nat /\ Len(k) \in Nat /\ Len(l) \in Nat /\ Len(r.to) \in Nat
  BY <1>1, LenProperties
<1>4. /\ Len(t) = Len(r.to) + (Len(k) - Len(p))
      /\ \A i \in 1..(Len(k) - Len(p)) : t[Len(r.to) + i] = k[Len(p) + i]
  <2>1. IsSpliced(Target(r, k), r.to, r.path, k)
    BY <1>1, TargetByName
  <2> QED BY <2>1, Zenon DEF IsSpliced
<1>5. /\ Len(t) = Len(r.to) + (Len(l) - Len(p))
      /\ \A i \in 1..(Len(l) - Len(p)) : t[Len(r.to) + i] = l[Len(p) + i]
  <2>1. IsSpliced(Target(r, l), r.to, r.path, l)
    BY <1>1, TargetByName
  <2> QED BY <2>1, Zenon DEF IsSpliced
<1> HIDE DEF p, t
<1>6. Len(k) = Len(l)
  BY <1>3, <1>4, <1>5
<1>7. ASSUME NEW i \in 1..Len(k) PROVE k[i] = l[i]
  <2>1. CASE i \in 1..Len(p)
    BY <1>2, <2>1
  <2>2. CASE i \notin 1..Len(p)
    <3>1. /\ i - Len(p) \in 1..(Len(k) - Len(p)) /\ i - Len(p) \in 1..(Len(l) - Len(p))
          /\ Len(p) + (i - Len(p)) = i
      BY <1>3, <1>6, <2>2
    <3> QED BY <1>4, <1>5, <3>1
  <2> QED BY <2>1, <2>2
<1> QED BY <1>1, <1>6, <1>7, SeqEqual, Zenon

LEMMA BelowIsWithin ==
    \A p \in Paths : \A k \in Below(p) : k \in Keys /\ Within(p, k) /\ k # p
BY DEF Below, S!IsStrictPrefix, Within

LEMMA MarkIsBelow == \A p \in Paths : Placeholder(p) \in Below(p)
BY PathIsWithinItself, MarksAreApart DEF Below, S!IsStrictPrefix, Within

-----------------------------------------------------------------------------
(* The inductive invariant.                                                *)

Resting == {"idle", "gone"}

(* A placeholder holds nothing but its mark.                               *)
MarksAreEmpty == \A p \in Paths : store[Placeholder(p)] \in {0, NoObject}

(* Where a caller is says what it was asked, and what its loop is about.   *)
OnCourse(c) ==
    /\ pc[c] \notin Resting => answer[c] = "none"
    /\ pc[c] \in {"put", "mkdir"} => req[c].op = pc[c]
    /\ pc[c] = "stat" => req[c].op \in {"stat", "remove", "rename"} /\ ~misled[c]
    /\ pc[c] = "copy" =>
          /\ req[c].op = "rename"
          /\ \A k \in todo[c] \cup listed[c] : Within(req[c].path, k)
    /\ pc[c] = "delete" => req[c].op \in {"remove", "rename"}
    /\ pc[c] = "delete" /\ req[c].op = "remove" =>
          todo[c] \subseteq {req[c].path, Placeholder(req[c].path)}
    /\ pc[c] = "delete" /\ req[c].op = "rename" =>
          \A k \in todo[c] : Within(req[c].path, k)

(* A call that nobody has disturbed has its region to itself.              *)
Alone(c) ==
    ~disturbed[c] =>
        \A d \in Callers \ {c} : pc[d] \notin Resting => ~Disturbs(req[d], req[c])

(* Nothing of what the call is about has changed since it began.           *)
Unwritten(c) == \A k \in Region(req[c]) : store[k] = before[c][k]

(* What a rename takes the path for: a file, or a directory.               *)
Sources(c) == {AsFile(c), AsDirectory(c)} \ {{}}

Landed(c, k) ==
    Target(req[c], k) \in Keys /\ store[Target(req[c], k)] = before[c][k]

(* Of the source, only what the rename has dealt with changes.             *)
Untouched(c, keys) ==
    \A k \in Keys \ keys : Within(req[c].path, k) => store[k] = before[c][k]

Moved(c, keys) == \A k \in keys : store[k] = NoObject /\ Landed(c, k)

Copying(c, keys) ==
    /\ todo[c] \cup listed[c] = keys
    /\ \A k \in listed[c] : Landed(c, k)
    /\ Untouched(c, {})

Deleting(c, keys) ==
    /\ todo[c] \subseteq keys
    /\ \A k \in keys : Landed(c, k)
    /\ \A k \in keys \ todo[c] : store[k] = NoObject
    /\ Untouched(c, keys)

RenameInv(c) ==
    Renaming(c) =>
        /\ pc[c] \in {"stat", "list"} => Unwritten(c)
        /\ pc[c] = "copy" => \E keys \in Sources(c) : Copying(c, keys)
        /\ pc[c] = "delete" => \E keys \in Sources(c) : Deleting(c, keys)
        /\ pc[c] \in Resting => /\ Kept(c, AsFile(c) \cup AsDirectory(c))
                                /\ answer[c] = "ok" =>
                                      \E keys \in Sources(c) : Moved(c, keys)

(* The object at the path, or the mark of a directory that is empty.       *)
RemoveInv(c) ==
    req[c].op = "remove" /\ ~disturbed[c] /\ ~misled[c] =>
        /\ pc[c] \in {"stat", "list", "delete"} => Unwritten(c)
        /\ pc[c] = "list" => AsFile(c) = {}
        /\ pc[c] = "delete" =>
              \/ todo[c] = {req[c].path} /\ AsFile(c) # {}
              \/ /\ todo[c] = {Placeholder(req[c].path)} /\ AsFile(c) = {}
                 /\ Below(req[c].path) \cap Present \subseteq todo[c]

CallerInv(c) == OnCourse(c) /\ Alone(c) /\ RenameInv(c) /\ RemoveInv(c)

Inv == TypeOK /\ MarksAreEmpty /\ \A c \in Callers : CallerInv(c)

LEMMA InitInv == Init => Inv
<1> SUFFICES ASSUME Init PROVE Inv
  OBVIOUS
<1>1. 0 \in Contents /\ puts \in 0..MaxPuts /\ calls \in 0..MaxCalls
  BY BoundsAssumption DEF Init, Contents
<1>2. misled \in [Callers -> BOOLEAN] /\ disturbed \in [Callers -> BOOLEAN]
      /\ mounted \in BOOLEAN
  BY Zenon DEF Init
<1>3. TypeOK
  BY <1>1, <1>2 DEF Init, TypeOK, Labels, Answers
<1>4. MarksAreEmpty
  BY MarksAreApart DEF Init, MarksAreEmpty
<1>5. ASSUME NEW c \in Callers PROVE CallerInv(c)
  <2>1. pc[c] = "idle" /\ req[c].op = "stat" /\ \A d \in Callers : pc[d] = "idle"
    BY DEF Init
  <2> QED BY <2>1 DEF CallerInv, OnCourse, Alone, RenameInv, RemoveInv, Renaming, Resting
<1> QED BY <1>3, <1>4, <1>5 DEF Inv

-----------------------------------------------------------------------------
(* What a step does to the caller that takes it, and to the others.        *)

Shaped ==
    /\ pc \in [Callers -> Labels] /\ answer \in [Callers -> Answers]
    /\ todo \in [Callers -> SUBSET Keys] /\ listed \in [Callers -> SUBSET Keys]

Same(d) ==
    /\ pc'[d] = pc[d] /\ answer'[d] = answer[d]
    /\ todo'[d] = todo[d] /\ listed'[d] = listed[d]

LEMMA ReturnIs ==
    ASSUME TypeOK, NEW c \in Callers, NEW result \in Answers, Return(c, result)
    PROVE  /\ Shaped'
           /\ pc'[c] = "idle" /\ answer'[c] = result /\ todo'[c] = {} /\ listed'[c] = {}
           /\ \A d \in Callers \ {c} : Same(d)
BY DEF TypeOK, Shaped, Return, Same, Labels

LEMMA LoopIs ==
    ASSUME TypeOK, NEW c \in Callers, NEW label \in Labels,
           NEW keys \in SUBSET Keys, NEW copied \in SUBSET Keys,
           Loop(c, label, keys, copied)
    PROVE  /\ Shaped'
           /\ pc'[c] = label /\ answer'[c] = answer[c]
           /\ todo'[c] = keys /\ listed'[c] = copied
           /\ \A d \in Callers \ {c} : Same(d)
BY DEF TypeOK, Shaped, Loop, Same

LEMMA GotoIs ==
    ASSUME TypeOK, NEW c \in Callers, NEW label \in Labels, Goto(c, label)
    PROVE  /\ Shaped'
           /\ pc'[c] = label /\ answer'[c] = answer[c]
           /\ todo'[c] = todo[c] /\ listed'[c] = listed[c]
           /\ \A d \in Callers \ {c} : Same(d)
BY DEF TypeOK, Shaped, Goto, Same

(* The others go on as they were, or go down with the process.             *)
Spared(d) ==
    /\ pc'[d] \in {pc[d], "gone"} /\ answer'[d] = answer[d]
    /\ todo'[d] = todo[d] /\ listed'[d] = listed[d]

LEMMA StepShape ==
    ASSUME Inv, NEW c \in Callers, Step(c)
    PROVE  Shaped' /\ \A d \in Callers \ {c} : Spared(d)
<1> DEFINE Goal == Shaped' /\ \A d \in Callers \ {c} : Spared(d)
<1> USE DEF Inv
<1>0. ASSUME Shaped', \A d \in Callers \ {c} : Same(d) PROVE Goal
  BY <1>0 DEF Same, Spared
<1>1. ASSUME NEW result \in Answers, Return(c, result) PROVE Goal
  BY <1>0, <1>1, ReturnIs
<1>2. ASSUME NEW label \in Labels, NEW keys \in SUBSET Keys, NEW copied \in SUBSET Keys,
             Loop(c, label, keys, copied)
      PROVE  Goal
  BY <1>0, <1>2, LoopIs
<1>3. /\ "delete" \in Labels /\ "copy" \in Labels /\ "list" \in Labels
      /\ Answers = {"none", "ok", "file", "dir", "notFound", "notEmpty", "error",
                    "notConnected"}
      /\ req[c].path \in Paths /\ req[c].path \in Keys
      /\ Placeholder(req[c].path) \in Keys
      /\ todo[c] \subseteq Keys /\ listed[c] \subseteq Keys
      /\ Below(req[c].path) \subseteq Keys
  BY MarksAreApart DEF TypeOK, Requests, Labels, Answers, Keys, Below
<1>4. CASE \E r \in Requests : Begin(c, r)
  <2>1. PICK r \in Requests : Begin(c, r)
    BY <1>4
  <2>2. r.op \in {"put", "mkdir"} => r.op \in Labels
    BY DEF Labels
  <2> QED BY <2>1, <2>2 DEF Begin, TypeOK, Shaped, Spared, Labels, Answers
<1>5. CASE Put(c) \/ PutFails(c) \/ PutOrphaned(c) \/ Mkdir(c) \/ MkdirFails(c)
           \/ ListStat(c) \/ ListFails(c)
  <2>1. \E result \in {"ok", "error", "notConnected", "notFound", "dir"} : Return(c, result)
    BY <1>5 DEF Put, PutFails, PutOrphaned, Mkdir, MkdirFails, ListStat, ListFails
  <2> QED BY <1>1, <1>3, <2>1
<1>6. CASE FileFound(c)
  <2>1. \/ Return(c, "file")
        \/ Loop(c, "delete", {req[c].path}, {})
        \/ Loop(c, "copy", {req[c].path}, {})
    <3>1. req[c].op \in {"stat", "remove", "rename"}
      BY <1>6 DEF CallerInv, OnCourse, FileFound, At
    <3> QED BY <1>6, <3>1 DEF FileFound
  <2> QED BY <1>1, <1>2, <1>3, <2>1
<1>7. CASE NoFile(c)
  <2>1. Goto(c, "list")
    BY <1>7 DEF NoFile
  <2> QED BY <1>0, <1>3, <2>1, GotoIs
<1>8. CASE ListRemove(c)
  <2>1. Loop(c, "delete", {Placeholder(req[c].path)}, {}) \/ Return(c, "notEmpty")
    BY <1>8 DEF ListRemove
  <2> QED BY <1>1, <1>2, <1>3, <2>1
<1>9. CASE ListRename(c)
  <2>1. Loop(c, "copy", Below(req[c].path) \cap Present, {}) \/ Return(c, "notFound")
    BY <1>9 DEF ListRename
  <2> QED BY <1>1, <1>2, <1>3, <2>1
<1>10. ASSUME NEW k \in Keys, Copy(c, k) \/ CopyFails(c, k) \/ Delete(c, k) \/ DeleteFails(c, k)
       PROVE  Goal
  <2>1. \/ Loop(c, "delete", listed[c] \cup {k}, {})
        \/ Loop(c, "copy", todo[c] \ {k}, listed[c] \cup {k})
        \/ Loop(c, "delete", todo[c] \ {k}, {})
        \/ Return(c, "ok") \/ Return(c, "error")
    BY <1>10 DEF Copy, CopyFails, Delete, DeleteFails
  <2>2. /\ listed[c] \cup {k} \in SUBSET Keys /\ todo[c] \ {k} \in SUBSET Keys
        /\ {} \in SUBSET Keys
    BY <1>3
  <2> QED BY <1>1, <1>2, <1>3, <2>1, <2>2
<1>11. CASE CallOnNil(c)
  BY <1>11 DEF CallOnNil, TypeOK, Shaped, Spared, Labels
<1> QED BY <1>4, <1>5, <1>6, <1>7, <1>8, <1>9, <1>10, <1>11 DEF Step

(* What a step may do to the bucket.                                       *)
Writes(c) ==
    \/ UNCHANGED store
    \/ \E n \in Contents : store' = [store EXCEPT ![req[c].path] = n]
    \/ store' = Marked(c)
    \/ \E k \in todo[c] : pc[c] = "copy" /\ CanCopy(c, k) /\ store' = Copied(c, k)
    \/ \E k \in todo[c] : pc[c] = "delete" /\ store' = Deleted(k)

LEMMA StepWrites == ASSUME Inv, NEW c \in Callers, Step(c) PROVE Writes(c)
<1>1. CASE Put(c) \/ PutFails(c)
  <2>1. puts + 1 \in Contents
    BY <1>1, BoundsAssumption DEF Put, PutFails, Inv, TypeOK, Contents
  <2> QED BY <1>1, <2>1 DEF Put, PutFails, Perhaps, Writes
<1>2. CASE Mkdir(c) \/ MkdirFails(c)
  BY <1>2 DEF Mkdir, MkdirFails, Perhaps, Writes
<1>3. ASSUME NEW k \in Keys, Copy(c, k) \/ CopyFails(c, k) \/ Delete(c, k) \/ DeleteFails(c, k)
      PROVE  Writes(c)
  BY <1>3, Zenon DEF Copy, CopyFails, Delete, DeleteFails, At, Perhaps, Writes
<1>4. CASE \/ \E r \in Requests : Begin(c, r)
           \/ PutOrphaned(c) \/ FileFound(c) \/ NoFile(c)
           \/ ListStat(c) \/ ListRemove(c) \/ ListRename(c) \/ ListFails(c) \/ CallOnNil(c)
  BY <1>4 DEF Begin, PutOrphaned, FileFound, NoFile, ListStat, ListRemove, ListRename,
              ListFails, CallOnNil, Writes
<1> QED BY <1>1, <1>2, <1>3, <1>4 DEF Step

LEMMA StoreIsTyped ==
    ASSUME Inv, NEW c \in Callers, Writes(c)
    PROVE  store' \in [Keys -> Contents \cup {NoObject}]
<1>1. /\ store \in [Keys -> Contents \cup {NoObject}] /\ 0 \in Contents
      /\ req[c] \in Requests /\ todo[c] \subseteq Keys
  BY BoundsAssumption DEF Inv, TypeOK, Contents
<1>2. ASSUME NEW k \in todo[c], CanCopy(c, k), store' = Copied(c, k)
      PROVE  store' \in [Keys -> Contents \cup {NoObject}]
  <2>1. store[k] \in Contents \cup {NoObject}
    BY <1>1
  <2> QED BY <1>1, <1>2, <2>1 DEF Copied
<1> QED BY <1>1, <1>2 DEF Writes, Marked, Deleted

(* Only a placeholder's own content is copied to one.                      *)
LEMMA MarksStep == ASSUME Inv, NEW c \in Callers, Writes(c) PROVE MarksAreEmpty'
<1> SUFFICES ASSUME NEW p \in Paths PROVE store'[Placeholder(p)] \in {0, NoObject}
  BY DEF MarksAreEmpty
<1> DEFINE mark == Placeholder(p)
<1>1. /\ store \in [Keys -> Contents \cup {NoObject}] /\ req[c] \in Requests
      /\ req[c].path \in Paths /\ todo[c] \subseteq Keys
      /\ store[mark] \in {0, NoObject}
      /\ mark \in Keys /\ mark \notin Paths /\ mark \notin Seq(Names)
  BY MarksAreApart, PlaceholderIsNoPath DEF Inv, TypeOK, Requests, MarksAreEmpty
<1> HIDE DEF mark
<1>2. ASSUME NEW k \in todo[c], pc[c] = "copy", CanCopy(c, k), store' = Copied(c, k)
      PROVE  store'[mark] \in {0, NoObject}
  <2>1. k \in Keys /\ Within(req[c].path, k) /\ Target(req[c], k) \in Keys
    BY <1>1, <1>2 DEF Inv, CallerInv, OnCourse, CanCopy
  <2>2. CASE Target(req[c], k) = mark
    <3>1. k \notin Paths
      BY <1>1, <2>1, <2>2, TargetIsWithin
    <3>2. store[k] \in {0, NoObject}
      BY <2>1, <3>1 DEF Keys, Inv, MarksAreEmpty
    <3> QED BY <1>1, <1>2, <2>2, <3>2 DEF Copied
  <2>3. CASE Target(req[c], k) # mark
    BY <1>1, <1>2, <2>1, <2>3 DEF Copied
  <2> QED BY <2>2, <2>3
<1>3. ASSUME NEW n \in Contents, store' = [store EXCEPT ![req[c].path] = n]
      PROVE  store'[mark] \in {0, NoObject}
  BY <1>1, <1>3
<1>4. ASSUME NEW k \in Keys, NEW x \in {0, NoObject}, store' = [store EXCEPT ![k] = x]
      PROVE  store'[mark] \in {0, NoObject}
  BY <1>1, <1>4
<1>5. CASE store' = Marked(c) \/ \E k \in todo[c] : store' = Deleted(k)
  <2>1. Placeholder(req[c].path) \in Keys
    BY <1>1, MarksAreApart
  <2> QED BY <1>1, <1>4, <1>5, <2>1 DEF Marked, Deleted, mark
<1>6. CASE UNCHANGED store
  BY <1>1, <1>6 DEF mark
<1> QED BY <1>2, <1>3, <1>5, <1>6 DEF Writes, mark

(* Who remembers what: only a call that begins, or that looks for a file,  *)
(* changes anything outside of bucket and loop.                            *)
LEMMA StepSession ==
    ASSUME NEW c \in Callers, Step(c)
    PROVE  \/ \E r \in Requests : Begin(c, r)
           \/ NoFile(c)
           \/ session' = session
BY DEF Step, Put, PutFails, PutOrphaned, Mkdir, MkdirFails, FileFound, ListStat,
       ListRemove, ListRename, ListFails, Copy, CopyFails, Delete, DeleteFails, CallOnNil

LEMMA SessionIsTyped ==
    ASSUME TypeOK, NEW c \in Callers, Step(c)
    PROVE  /\ mounted' \in BOOLEAN /\ calls' \in 0..MaxCalls /\ puts' \in 0..MaxPuts
           /\ req' \in [Callers -> Requests]
           /\ before' \in [Callers -> [Keys -> Contents \cup {NoObject}]]
           /\ misled' \in [Callers -> BOOLEAN] /\ disturbed' \in [Callers -> BOOLEAN]
<1> USE DEF TypeOK
<1>1. puts' \in 0..MaxPuts
  <2>1. UNCHANGED puts \/ (puts < MaxPuts /\ puts' = puts + 1)
    BY DEF Step, Begin, Put, PutFails, PutOrphaned, Mkdir, MkdirFails, FileFound, NoFile,
           ListStat, ListRemove, ListRename, ListFails, Copy, CopyFails, Delete,
           DeleteFails, CallOnNil
  <2> QED BY <2>1, BoundsAssumption
<1>2. CASE \E r \in Requests : Begin(c, r)
  <2>1. PICK r \in Requests : Begin(c, r)
    BY <1>2
  <2>2. disturbed' \in [Callers -> BOOLEAN]
    BY <2>1, Zenon DEF Begin
  <2>3. mounted' \in BOOLEAN /\ misled' \in [Callers -> BOOLEAN]
    BY <2>1, Zenon DEF Begin
  <2>4. calls' \in 0..MaxCalls
    BY <2>1, BoundsAssumption DEF Begin
  <2>5. req' \in [Callers -> Requests]
    BY <2>1 DEF Begin
  <2>6. before' \in [Callers -> [Keys -> Contents \cup {NoObject}]]
    BY <2>1 DEF Begin
  <2> QED BY <1>1, <2>2, <2>3, <2>4, <2>5, <2>6
<1>3. CASE NoFile(c)
  <2>1. PICK b \in BOOLEAN : misled' = [misled EXCEPT ![c] = b]
    <3>1. (req[c].path \in Present) \in BOOLEAN
      OBVIOUS
    <3> QED BY <1>3, <3>1, Zenon DEF NoFile
  <2>2. UNCHANGED <<mounted, calls, req, before, disturbed>>
    BY <1>3 DEF NoFile
  <2> QED BY <1>1, <2>1, <2>2
<1>4. CASE session' = session
  BY <1>1, <1>4 DEF session
<1> QED BY <1>2, <1>3, <1>4, StepSession

LEMMA TypeStep == Inv /\ [Next]_vars => TypeOK'
<1> SUFFICES ASSUME Inv, [Next]_vars PROVE TypeOK'
  OBVIOUS
<1>1. ASSUME NEW c \in Callers, Step(c) PROVE TypeOK'
  <2>1. Shaped'
    BY <1>1, StepShape
  <2>2. store' \in [Keys -> Contents \cup {NoObject}]
    BY <1>1, StepWrites, StoreIsTyped
  <2> QED BY <1>1, <2>1, <2>2, SessionIsTyped DEF Inv, TypeOK, Shaped
<1>2. CASE Mount \/ Unmount \/ UNCHANGED vars
  <2>1. mounted' \in BOOLEAN
    BY <1>2, Zenon DEF Mount, Unmount, vars, Inv, TypeOK
  <2> QED BY <1>2, <2>1 DEF Mount, Unmount, vars, Inv, TypeOK
<1> QED BY <1>1, <1>2 DEF Next

-----------------------------------------------------------------------------
(* Other callers' steps.                                                   *)

LEMMA RegionOf ==
    ASSUME NEW r \in Requests
    PROVE  /\ Region(r) = {k \in Keys : Within(r.path, k) \/ Within(r.to, k)}
           /\ r.path \in Region(r) /\ Placeholder(r.path) \in Region(r)
           /\ Below(r.path) \subseteq Region(r)
BY PathIsWithinItself, MarksAreApart, BelowIsWithin
   DEF Region, Within, Requests, Keys

(* A step of a call writes no key but those the call may touch.            *)
LEMMA WritesTouched ==
    ASSUME Inv, NEW d \in Callers, Step(d), NEW k \in Keys, store'[k] # store[k]
    PROVE  pc[d] \notin Resting /\ k \in Touched(req[d])
<1> DEFINE r == req[d]
<1>1. /\ TypeOK /\ OnCourse(d) /\ r \in Requests /\ r.path \in Paths
      /\ store \in [Keys -> Contents \cup {NoObject}] /\ todo[d] \subseteq Keys
  BY DEF Inv, CallerInv, TypeOK, Requests
<1>2. CASE Put(d) \/ PutFails(d)
  <2>1. /\ pc[d] = "put" /\ r.op = "put"
        /\ store' \in {store, [store EXCEPT ![r.path] = puts + 1]}
    BY <1>1, <1>2 DEF Put, PutFails, At, Perhaps, OnCourse
  <2> QED BY <1>1, <2>1 DEF Touched, Resting
<1>3. CASE Mkdir(d) \/ MkdirFails(d)
  <2>1. pc[d] = "mkdir" /\ r.op = "mkdir" /\ store' \in {store, Marked(d)}
    BY <1>1, <1>3 DEF Mkdir, MkdirFails, At, Perhaps, OnCourse
  <2> QED BY <1>1, <2>1 DEF Touched, Resting, Marked
<1>4. ASSUME NEW l \in Keys, Copy(d, l) \/ CopyFails(d, l)
      PROVE  pc[d] \notin Resting /\ k \in Touched(r)
  <2>1. /\ pc[d] = "copy" /\ r.op = "rename" /\ Within(r.path, l)
        /\ CanCopy(d, l) /\ store' \in {store, Copied(d, l)}
    BY <1>1, <1>4 DEF Copy, CopyFails, At, Perhaps, OnCourse
  <2>2. k = Target(r, l)
    BY <1>1, <2>1 DEF Copied, CanCopy
  <2>3. Within(r.to, k)
    BY <1>1, <2>1, <2>2, TargetIsWithin
  <2>4. k \in Region(r)
    BY <1>1, <2>3, RegionOf
  <2> QED BY <2>1, <2>4 DEF Touched, Resting
<1>5. ASSUME NEW l \in Keys, Delete(d, l) \/ DeleteFails(d, l)
      PROVE  pc[d] \notin Resting /\ k \in Touched(r)
  <2>1. /\ pc[d] = "delete" /\ l \in todo[d] /\ store' \in {store, Deleted(l)}
    BY <1>5 DEF Delete, DeleteFails, At, Perhaps
  <2>2. k = l
    BY <1>1, <2>1 DEF Deleted
  <2>3. CASE r.op = "remove"
    BY <1>1, <2>1, <2>2, <2>3 DEF OnCourse, Touched, Resting
  <2>4. CASE r.op = "rename"
    <3>1. Within(r.path, k)
      BY <1>1, <2>1, <2>2, <2>4 DEF OnCourse
    <3>2. k \in Region(r)
      BY <1>1, <3>1, RegionOf
    <3> QED BY <2>1, <2>4, <3>2 DEF Touched, Resting
  <2> QED BY <1>1, <2>1, <2>3, <2>4 DEF OnCourse
<1>6. CASE \/ \E q \in Requests : Begin(d, q)
           \/ PutOrphaned(d) \/ FileFound(d) \/ NoFile(d)
           \/ ListStat(d) \/ ListRemove(d) \/ ListRename(d) \/ ListFails(d) \/ CallOnNil(d)
  BY <1>6 DEF Begin, PutOrphaned, FileFound, NoFile, ListStat, ListRemove, ListRename,
              ListFails, CallOnNil
<1> QED BY <1>2, <1>3, <1>4, <1>5, <1>6 DEF Step

(* Who calls next is told of whom it may disturb, and who is running is    *)
(* told of it.                                                             *)
LEMMA StepDisturbs ==
    ASSUME Inv, NEW c \in Callers, NEW d \in Callers, Step(d), ~disturbed'[c]
    PROVE  /\ d # c \/ (\A r \in Requests : ~Begin(d, r)) => ~disturbed[c]
           /\ \A e \in Callers \ {c} :
                 pc'[e] \notin Resting => ~Disturbs(req'[e], req'[c])
<1>1. CASE \E r \in Requests : Begin(d, r)
  <2>1. PICK r \in Requests : Begin(d, r)
    BY <1>1
  <2>2. req' = [req EXCEPT ![d] = r] /\ TypeOK
    BY <2>1 DEF Begin, Inv
  <2>3. \A e \in Callers \ {d} : pc'[e] = pc[e] /\ req'[e] = req[e]
    BY <2>1, <2>2 DEF Begin, TypeOK
  <2>4. CASE d = c
    <3>1. ~(\E e \in Callers \ {c} : pc[e] # "idle" /\ Disturbs(req[e], r))
      BY <2>1, <2>4, Zenon DEF Begin
    <3>2. req'[c] = r
      BY <2>2, <2>4 DEF TypeOK
    <3> QED BY <1>1, <2>3, <2>4, <3>1, <3>2 DEF Resting
  <2>5. CASE d # c
    <3>1. ~(disturbed[c] \/ Disturbs(r, req[c]))
      BY <2>1, <2>5, Zenon DEF Begin
    <3>2. req'[c] = req[c] /\ req'[d] = r
      BY <2>2, <2>5 DEF TypeOK
    <3>3. \A e \in Callers \ {c, d} : pc[e] \notin Resting => ~Disturbs(req[e], req[c])
      BY <3>1 DEF Inv, CallerInv, Alone
    <3> QED BY <2>3, <3>1, <3>2, <3>3
  <2> QED BY <2>4, <2>5
<1>2. CASE \A r \in Requests : ~Begin(d, r)
  <2>1. disturbed' = disturbed /\ req' = req
    BY <1>2, StepSession DEF NoFile, session
  <2>2. \A e \in Callers : pc'[e] \notin Resting => pc[e] \notin Resting
    <3>1. ASSUME NEW e \in Callers \ {d}, pc'[e] \notin Resting PROVE pc[e] \notin Resting
      BY <3>1, StepShape DEF Spared, Resting
    <3>2. pc[d] \notin Resting
      BY <1>2 DEF Resting, Step, Put, PutFails, PutOrphaned, Mkdir, MkdirFails, FileFound,
                  NoFile, ListStat, ListRemove, ListRename, ListFails, Copy, CopyFails,
                  Delete, DeleteFails, CallOnNil, At
    <3> QED BY <3>1, <3>2
  <2>3. ~disturbed[c]
    BY <2>1, Zenon
  <2> QED BY <2>1, <2>2, <2>3 DEF Inv, CallerInv, Alone
<1> QED BY <1>1, <1>2

(* Beside a call that stays undisturbed, nothing changes in its region.    *)
LEMMA RegionStays ==
    ASSUME Inv, NEW c \in Callers, NEW d \in Callers \ {c}, Step(d), ~disturbed'[c]
    PROVE  \A k \in Region(req[c]) : store'[k] = store[k]
<1> SUFFICES ASSUME NEW k \in Region(req[c]), store'[k] # store[k] PROVE FALSE
  OBVIOUS
<1>1. pc[d] \notin Resting /\ k \in Touched(req[d])
  BY WritesTouched DEF Region
<1>2. ~disturbed[c]
  BY StepDisturbs
<1>3. ~Disturbs(req[d], req[c])
  BY <1>1, <1>2 DEF Inv, CallerInv, Alone
<1> QED BY <1>1, <1>3 DEF Disturbs

(* The caller's own step leaves it alone if it was.                        *)
LEMMA OwnAlone ==
    ASSUME Inv, NEW c \in Callers, Step(c)
    PROVE  Alone(c)'
<1> SUFFICES ASSUME ~disturbed'[c]
             PROVE  \A e \in Callers \ {c} :
                       pc'[e] \notin Resting => ~Disturbs(req[e], req[c])'
  BY DEF Alone
<1>1. \A e \in Callers \ {c} : pc'[e] \notin Resting => ~Disturbs(req'[e], req'[c])
  BY StepDisturbs
<1> QED BY <1>1 DEF Disturbs, Touched, Region, Keys, Placeholder

-----------------------------------------------------------------------------
(* The caller's own steps.                                                 *)

Own(c) == OnCourse(c) /\ RenameInv(c) /\ RemoveInv(c)

(* What a rename was asked to move does not change while it moves it.      *)
LEMMA SourcesStay ==
    ASSUME NEW c \in Callers, req'[c] = req[c], before'[c] = before[c]
    PROVE  /\ AsFile(c)' = AsFile(c) /\ AsDirectory(c)' = AsDirectory(c)
           /\ Sources(c)' = Sources(c)
BY DEF AsFile, AsDirectory, Sources, Below, Keys

LEMMA SourcesAreWithin ==
    ASSUME TypeOK, NEW c \in Callers, NEW k \in AsFile(c) \cup AsDirectory(c)
    PROVE  k \in Keys /\ Within(req[c].path, k)
BY PathIsWithinItself, BelowIsWithin DEF AsFile, AsDirectory, TypeOK, Requests

(* A call that returns has little left to answer for.                      *)
LEMMA Rests ==
    ASSUME NEW c \in Callers, pc'[c] \in Resting,
           Renaming(c)' => /\ Kept(c, AsFile(c) \cup AsDirectory(c))'
                           /\ answer'[c] = "ok" => (\E keys \in Sources(c) : Moved(c, keys))'
    PROVE  Own(c)'
BY DEF Own, OnCourse, RenameInv, RemoveInv, Resting

(* As long as a call goes on, a rename is what it was.                     *)
LEMMA RenamingStays ==
    ASSUME Inv, NEW c \in Callers, pc[c] \notin Resting, session' = session
    PROVE  /\ Renaming(c)' => Renaming(c)
           /\ req'[c] = req[c] /\ before'[c] = before[c] /\ misled'[c] = misled[c]
           /\ disturbed'[c] = disturbed[c]
BY DEF Inv, CallerInv, OnCourse, Renaming, session, Apart

LEMMA BeginOwn ==
    ASSUME Inv, NEW c \in Callers, NEW r \in Requests, Begin(c, r)
    PROVE  Own(c)'
<1> DEFINE label == IF r.op \in {"put", "mkdir"} THEN r.op ELSE "stat"
<1>1. req'[c] = r /\ before'[c] = store /\ store' = store
  BY DEF Begin, Inv, TypeOK
<1>2. misled'[c] = FALSE
  BY Zenon DEF Begin, Inv, TypeOK
<1>3. CASE ~mounted
  <2>1. pc'[c] = "idle" /\ answer'[c] = "notConnected"
    BY <1>3 DEF Begin, Inv, TypeOK
  <2> QED BY <2>1, Rests DEF Renaming, Resting
<1>4. CASE mounted
  <2>1. pc'[c] = label /\ answer'[c] = "none"
    BY <1>4 DEF Begin, Inv, TypeOK
  <2>2. r.op \in {"stat", "put", "mkdir", "remove", "rename"}
    BY DEF Requests
  <2>3. OnCourse(c)'
    BY <1>1, <1>2, <2>1, <2>2 DEF OnCourse
  <2>4. RenameInv(c)' /\ RemoveInv(c)'
    <3>1. Unwritten(c)'
      BY <1>1 DEF Unwritten
    <3> QED BY <1>1, <2>1, <2>2, <3>1 DEF RenameInv, RemoveInv, Renaming, Resting
  <2> QED BY <2>3, <2>4 DEF Own
<1> QED BY <1>3, <1>4

(* Writing a file, making a directory, Stat: neither renames nor removes.  *)
LEMMA PlainOwn ==
    ASSUME Inv, NEW c \in Callers,
           \/ Put(c) \/ PutFails(c) \/ PutOrphaned(c) \/ Mkdir(c) \/ MkdirFails(c)
           \/ ListStat(c)
    PROVE  Own(c)'
<1>1. req[c].op \in {"put", "mkdir", "stat"} /\ req'[c] = req[c]
  BY DEF Inv, CallerInv, OnCourse, Put, PutFails, PutOrphaned, Mkdir, MkdirFails,
         ListStat, At, session
<1>2. PICK result \in Answers : Return(c, result)
  BY DEF Put, PutFails, PutOrphaned, Mkdir, MkdirFails, ListStat, Answers
<1>3. pc'[c] = "idle"
  BY <1>2, ReturnIs DEF Inv
<1> QED BY <1>1, <1>3, Rests DEF Renaming, Resting

(* While nothing has been written, every object is where it was.           *)
LEMMA UnwrittenIsKept ==
    ASSUME TypeOK, NEW c \in Callers, Unwritten(c), store' = store,
           req'[c] = req[c], before'[c] = before[c]
    PROVE  Kept(c, AsFile(c) \cup AsDirectory(c))'
<1> SUFFICES ASSUME NEW k \in (AsFile(c) \cup AsDirectory(c))'
             PROVE  store'[k] = before'[c][k]
  BY DEF Kept
<1>1. k \in AsFile(c) \cup AsDirectory(c) /\ req[c] \in Requests
  BY SourcesStay DEF TypeOK
<1>2. k \in Region(req[c])
  BY <1>1, SourcesAreWithin, RegionOf
<1> QED BY <1>2 DEF Unwritten

(* What the call finds at its path and below is what was there.            *)
LEMMA UnwrittenIsSeen ==
    ASSUME TypeOK, NEW c \in Callers, Unwritten(c)
    PROVE  /\ AsFile(c) = {req[c].path} \cap Present
           /\ AsDirectory(c) = Below(req[c].path) \cap Present
           /\ Untouched(c, {})
<1>1. req[c] \in Requests
  BY DEF TypeOK
<1> QED BY <1>1, RegionOf DEF Unwritten, AsFile, AsDirectory, Present, Untouched

LEMMA UnwrittenStays ==
    ASSUME NEW c \in Callers, Unwritten(c), store' = store,
           req'[c] = req[c], before'[c] = before[c]
    PROVE  Unwritten(c)' /\ \A keys : Untouched(c, keys) => Untouched(c, keys)'
BY DEF Unwritten, Region, Keys, Placeholder, Untouched, Within

LEMMA FileFoundOwn ==
    ASSUME Inv, NEW c \in Callers, FileFound(c)
    PROVE  Own(c)'
<1> DEFINE r == req[c]
<1>1. /\ pc[c] = "stat" /\ r.op \in {"stat", "remove", "rename"} /\ ~misled[c]
      /\ r.path \in Present /\ r.path \in Keys /\ answer[c] = "none"
      /\ store' = store /\ session' = session /\ TypeOK
  BY DEF FileFound, At, Present, Inv, CallerInv, OnCourse, Resting
<1>2. /\ Renaming(c)' => Renaming(c)
      /\ req'[c] = r /\ before'[c] = before[c] /\ misled'[c] = misled[c]
      /\ disturbed'[c] = disturbed[c]
  BY <1>1, RenamingStays DEF Resting
<1>3. /\ AsFile(c)' = AsFile(c) /\ AsDirectory(c)' = AsDirectory(c)
      /\ Sources(c)' = Sources(c)
  BY <1>2, SourcesStay
<1>4. Unwritten(c) => AsFile(c) = {r.path} /\ Unwritten(c)' /\ Untouched(c, {})'
  BY <1>1, <1>2, UnwrittenIsSeen, UnwrittenStays
<1>5. {r.path} \in SUBSET Keys /\ {} \in SUBSET Keys /\ "copy" \in Labels /\ "delete" \in Labels
  BY <1>1 DEF Labels
<1>6. CASE r.op = "stat"
  <2>1. Return(c, "file") /\ "file" \in Answers
    BY <1>6 DEF FileFound, Answers
  <2>2. pc'[c] = "idle"
    BY <1>1, <2>1, ReturnIs
  <2> QED BY <1>2, <1>6, <2>2, Rests DEF Resting, Renaming
<1>7. CASE r.op = "remove"
  <2>1. Loop(c, "delete", {r.path}, {})
    BY <1>7 DEF FileFound
  <2>2. pc'[c] = "delete" /\ answer'[c] = "none" /\ todo'[c] = {r.path}
    BY <1>1, <1>5, <2>1, LoopIs, ZenonT(60)
  <2>3. OnCourse(c)'
    BY <1>2, <1>7, <2>2 DEF OnCourse
  <2>4. RenameInv(c)'
    BY <1>2, <1>7 DEF RenameInv, Renaming
  <2>5. ~disturbed[c] => Unwritten(c)
    BY <1>1, <1>7 DEF Inv, CallerInv, RemoveInv
  <2>6. RemoveInv(c)'
    BY <1>1, <1>2, <1>3, <1>4, <2>2, <2>5, Zenon DEF RemoveInv
  <2> QED BY <2>3, <2>4, <2>6 DEF Own
<1>8. CASE r.op = "rename"
  <2>1. Loop(c, "copy", {r.path}, {})
    BY <1>8 DEF FileFound
  <2>2. pc'[c] = "copy" /\ answer'[c] = "none" /\ todo'[c] = {r.path} /\ listed'[c] = {}
    <3>1. pc'[c] = "copy" /\ answer'[c] = "none" /\ todo'[c] = {r.path}
      BY <1>1, <1>5, <2>1, LoopIs, ZenonT(60)
    <3>2. listed'[c] = {}
      BY <1>1, <2>1 DEF Loop, TypeOK
    <3> QED BY <3>1, <3>2
  <2>3. Within(r.path, r.path)
    BY <1>1, PathIsWithinItself DEF TypeOK, Requests
  <2>4. OnCourse(c)'
    BY <1>2, <1>8, <2>2, <2>3 DEF OnCourse, Within
  <2>5. ASSUME Renaming(c) PROVE {r.path} \in Sources(c) /\ Copying(c, {r.path})'
    <3>1. Unwritten(c)
      BY <1>1, <2>5 DEF Inv, CallerInv, RenameInv
    <3>2. {r.path} \in Sources(c)
      BY <1>4, <3>1 DEF Sources
    <3>3. todo'[c] \cup listed'[c] = {r.path} /\ \A k \in listed'[c] : FALSE
      BY <2>2
    <3>4. Copying(c, {r.path})'
      BY <1>2, <1>4, <3>1, <3>3 DEF Copying
    <3> QED BY <3>2, <3>4
  <2>6. RenameInv(c)'
    BY <1>2, <1>3, <2>2, <2>5, Zenon DEF RenameInv, Resting
  <2>7. RemoveInv(c)'
    BY <1>2, <1>8 DEF RemoveInv
  <2> QED BY <2>4, <2>6, <2>7 DEF Own
<1> QED BY <1>1, <1>6, <1>7, <1>8

LEMMA NoFileOwn ==
    ASSUME Inv, NEW c \in Callers, NoFile(c)
    PROVE  Own(c)'
<1>1. /\ pc[c] = "stat" /\ ~misled[c] /\ answer[c] = "none" /\ store' = store
      /\ req' = req /\ before' = before /\ disturbed' = disturbed
      /\ Goto(c, "list") /\ "list" \in Labels /\ req[c].path \in Keys
  BY DEF NoFile, At, Inv, CallerInv, OnCourse, Resting, Labels, TypeOK, Requests, Keys
<1>2. pc'[c] = "list" /\ answer'[c] = "none" /\ todo'[c] = todo[c]
  BY <1>1, GotoIs DEF Inv
<1>3. misled'[c] <=> req[c].path \in Present
  BY Zenon DEF NoFile, Inv, TypeOK
<1>4. /\ AsFile(c)' = AsFile(c) /\ AsDirectory(c)' = AsDirectory(c)
      /\ Sources(c)' = Sources(c)
  BY <1>1, SourcesStay
<1>5. OnCourse(c)'
  BY <1>2 DEF OnCourse
<1>6. RenameInv(c)'
  <2>1. Renaming(c)' => Renaming(c)
    BY <1>1 DEF Renaming, Apart
  <2>2. Unwritten(c) => Unwritten(c)'
    BY <1>1, UnwrittenStays
  <2> QED BY <1>1, <1>2, <2>1, <2>2 DEF RenameInv, Inv, CallerInv, Resting
<1>7. RemoveInv(c)'
  <2> SUFFICES ASSUME req[c].op = "remove", ~disturbed[c], ~misled'[c]
               PROVE  Unwritten(c)' /\ AsFile(c)' = {}
    BY <1>1, <1>2 DEF RemoveInv
  <2>1. Unwritten(c)
    BY <1>1 DEF Inv, CallerInv, RemoveInv
  <2>2. AsFile(c) = {}
    BY <1>1, <1>3, <2>1, UnwrittenIsSeen DEF Inv
  <2> QED BY <1>1, <1>4, <2>1, <2>2, UnwrittenStays
<1> QED BY <1>5, <1>6, <1>7 DEF Own

LEMMA ListRemoveOwn ==
    ASSUME Inv, NEW c \in Callers, ListRemove(c)
    PROVE  Own(c)'
<1> DEFINE r == req[c]
           mark == Placeholder(r.path)
<1>1. /\ pc[c] = "list" /\ r.op = "remove" /\ answer[c] = "none"
      /\ store' = store /\ session' = session /\ TypeOK
  BY DEF ListRemove, At, Inv, CallerInv, OnCourse, Resting
<1>2. /\ req'[c] = r /\ before'[c] = before[c] /\ misled'[c] = misled[c]
      /\ disturbed'[c] = disturbed[c]
  BY <1>1, RenamingStays DEF Resting
<1>3. AsFile(c)' = AsFile(c)
  BY <1>2, SourcesStay
<1>4. /\ mark \in Keys /\ {mark} \in SUBSET Keys /\ {} \in SUBSET Keys
      /\ "delete" \in Labels /\ "notEmpty" \in Answers
  BY <1>1, MarksAreApart DEF TypeOK, Requests, Labels, Answers
<1>5. CASE Below(r.path) \cap Present \subseteq {mark}
  <2>1. Loop(c, "delete", {mark}, {})
    BY <1>5 DEF ListRemove
  <2>2. pc'[c] = "delete" /\ answer'[c] = "none" /\ todo'[c] = {mark}
    BY <1>1, <1>4, <2>1, LoopIs, ZenonT(60)
  <2>3. OnCourse(c)'
    BY <1>1, <1>2, <2>2 DEF OnCourse, Placeholder
  <2>4. RenameInv(c)'
    BY <1>1, <1>2 DEF RenameInv, Renaming
  <2>5. ASSUME ~disturbed[c], ~misled[c]
        PROVE  Unwritten(c)' /\ AsFile(c) = {}
    <3>1. Unwritten(c) /\ AsFile(c) = {}
      BY <1>1, <2>5 DEF Inv, CallerInv, RemoveInv
    <3> QED BY <1>1, <1>2, <3>1, UnwrittenStays
  <2>6. (Below(req[c].path) \cap Present)' \subseteq {mark}
    BY <1>1, <1>2, <1>5 DEF Below, Present, Keys
  <2>7. Placeholder(req[c].path)' = mark
    BY <1>2 DEF Placeholder
  <2>8. RemoveInv(c)'
    BY <1>1, <1>2, <1>3, <2>2, <2>5, <2>6, <2>7, Zenon DEF RemoveInv
  <2> QED BY <2>3, <2>4, <2>8 DEF Own
<1>6. CASE ~(Below(r.path) \cap Present \subseteq {mark})
  <2>1. Return(c, "notEmpty")
    BY <1>6 DEF ListRemove
  <2>2. pc'[c] = "idle"
    BY <1>1, <1>4, <2>1, ReturnIs
  <2> QED BY <1>1, <1>2, <2>2, Rests DEF Resting, Renaming
<1> QED BY <1>5, <1>6

LEMMA ListRenameOwn ==
    ASSUME Inv, NEW c \in Callers, ListRename(c)
    PROVE  Own(c)'
<1> DEFINE r == req[c]
           found == Below(r.path) \cap Present
<1>1. /\ pc[c] = "list" /\ r.op = "rename" /\ answer[c] = "none"
      /\ store' = store /\ session' = session /\ TypeOK /\ r.path \in Paths
  BY DEF ListRename, At, Inv, CallerInv, OnCourse, Resting, TypeOK, Requests
<1>2. /\ Renaming(c)' => Renaming(c)
      /\ req'[c] = r /\ before'[c] = before[c]
  BY <1>1, RenamingStays DEF Resting
<1>3. /\ AsFile(c)' = AsFile(c) /\ AsDirectory(c)' = AsDirectory(c)
      /\ Sources(c)' = Sources(c)
  BY <1>2, SourcesStay
<1>4. Renaming(c) => Unwritten(c)
  BY <1>1 DEF Inv, CallerInv, RenameInv
<1>5. Unwritten(c) => AsDirectory(c) = found /\ Untouched(c, {})'
  BY <1>1, <1>2, UnwrittenIsSeen, UnwrittenStays
<1>6. CASE found = {}
  <2>1. Return(c, "notFound") /\ "notFound" \in Answers
    BY <1>6 DEF ListRename, Answers
  <2>2. pc'[c] = "idle" /\ answer'[c] = "notFound"
    BY <1>1, <2>1, ReturnIs
  <2>3. Renaming(c) => Kept(c, AsFile(c) \cup AsDirectory(c))'
    BY <1>1, <1>2, <1>4, UnwrittenIsKept
  <2> QED BY <1>2, <2>2, <2>3, Rests DEF Resting
<1>7. CASE found # {}
  <2>1. Loop(c, "copy", found, {}) /\ found \in SUBSET Keys
        /\ {} \in SUBSET Keys /\ "copy" \in Labels
    BY <1>7 DEF ListRename, Present, Labels
  <2>2. pc'[c] = "copy" /\ answer'[c] = "none" /\ todo'[c] = found
    BY <1>1, <2>1, LoopIs, ZenonT(60)
  <2>3. listed'[c] = {}
    BY <1>1, <2>1 DEF Loop, TypeOK
  <2>4. \A k \in found : Within(r.path, k)
    BY <1>1, BelowIsWithin
  <2>5. OnCourse(c)'
    BY <1>1, <1>2, <2>2, <2>3, <2>4 DEF OnCourse, Within
  <2> PICK keys : keys = found
    OBVIOUS
  <2>6. ASSUME Renaming(c) PROVE keys \in Sources(c) /\ Copying(c, keys)'
    <3>1. Untouched(c, {})'
      BY <1>4, <1>5, <2>6
    <3>2. keys \in Sources(c)
      BY <1>4, <1>5, <1>7, <2>6 DEF Sources
    <3> QED BY <2>2, <2>3, <3>1, <3>2 DEF Copying
  <2>7. RenameInv(c)'
    BY <1>2, <1>3, <2>2, <2>6, Zenon DEF RenameInv, Resting
  <2>8. RemoveInv(c)'
    BY <1>1, <1>2 DEF RemoveInv
  <2> QED BY <2>5, <2>7, <2>8 DEF Own
<1> QED BY <1>6, <1>7

LEMMA ListFailsOwn ==
    ASSUME Inv, NEW c \in Callers, ListFails(c)
    PROVE  Own(c)'
<1>1. /\ pc[c] = "list" /\ store' = store /\ session' = session /\ TypeOK
      /\ Return(c, "error") /\ "error" \in Answers
  BY DEF ListFails, At, Inv, Answers
<1>2. pc'[c] = "idle" /\ answer'[c] = "error"
  BY <1>1, ReturnIs
<1>3. /\ Renaming(c)' => Renaming(c)
      /\ req'[c] = req[c] /\ before'[c] = before[c]
  BY <1>1, RenamingStays DEF Resting
<1>4. Renaming(c) => Unwritten(c)
  BY <1>1 DEF Inv, CallerInv, RenameInv
<1>5. Renaming(c) => Kept(c, AsFile(c) \cup AsDirectory(c))'
  BY <1>1, <1>3, <1>4, UnwrittenIsKept
<1> QED BY <1>2, <1>3, <1>5, Rests DEF Resting

(* What lies within the source lies outside the destination.               *)
LEMMA SourceIsOutside ==
    ASSUME TypeOK, NEW c \in Callers, Renaming(c),
           NEW k \in Keys, Within(req[c].path, k)
    PROVE  ~Within(req[c].to, k)
BY ApartIsDisjoint DEF TypeOK, Renaming

(* And nothing that is moved arrives there.                                *)
LEMMA TargetIsOutside ==
    ASSUME TypeOK, NEW c \in Callers, Renaming(c),
           NEW k \in Keys, Within(req[c].path, k), Target(req[c], k) \in Keys,
           NEW l \in Keys, ~Within(req[c].to, l)
    PROVE  Target(req[c], k) # l
BY TargetIsWithin DEF TypeOK

LEMMA UntouchedIsKept ==
    ASSUME TypeOK, NEW c \in Callers, Renaming(c), req'[c] = req[c], before'[c] = before[c],
           \A k \in Keys : Within(req[c].path, k) => store'[k] = before[c][k]
    PROVE  Kept(c, AsFile(c) \cup AsDirectory(c))'
<1> SUFFICES ASSUME NEW k \in (AsFile(c) \cup AsDirectory(c))'
             PROVE  store'[k] = before'[c][k]
  BY DEF Kept
<1>1. k \in AsFile(c) \cup AsDirectory(c)
  BY SourcesStay
<1>2. k \in Keys /\ Within(req[c].path, k)
  BY <1>1, SourcesAreWithin
<1> QED BY <1>2

(* One object copied: those before it stay where they have arrived.        *)
LEMMA CopyEffect ==
    ASSUME TypeOK, NEW c \in Callers, Renaming(c), NEW keys \in Sources(c),
           Copying(c, keys), NEW k \in todo[c], CanCopy(c, k), store' = Copied(c, k),
           req'[c] = req[c], before'[c] = before[c]
    PROVE  /\ \A l \in Keys : Within(req[c].path, l) => store'[l] = before[c][l]
           /\ \A l \in listed[c] \cup {k} :
                 /\ Target(req[c], l) \in Keys
                 /\ store'[Target(req[c], l)] = before[c][l]
<1> DEFINE r == req[c]
<1>1. /\ keys \subseteq AsFile(c) \cup AsDirectory(c)
      /\ k \in keys /\ \A l \in listed[c] : l \in keys
  BY DEF Sources, Copying
<1>2. \A l \in keys : l \in Keys /\ Within(r.path, l) /\ ~Within(r.to, l)
  BY <1>1, SourcesAreWithin, SourceIsOutside
<1>3. Target(r, k) \in Keys /\ store \in [Keys -> Contents \cup {NoObject}] /\ r \in Requests
  BY DEF CanCopy, TypeOK
<1>4. store[k] = before[c][k]
  BY <1>1, <1>2 DEF Copying, Untouched
<1>5. ASSUME NEW l \in Keys, Within(r.path, l) PROVE store'[l] = before[c][l]
  <2>1. l # Target(r, k)
    BY <1>1, <1>2, <1>3, <1>5, SourceIsOutside, TargetIsOutside
  <2>2. store'[l] = store[l]
    BY <1>3, <2>1 DEF Copied
  <2> QED BY <1>5, <2>2 DEF Copying, Untouched
<1>6. store'[Target(r, k)] = before[c][k]
  BY <1>3, <1>4 DEF Copied
<1>7. ASSUME NEW l \in listed[c], l # k
      PROVE  Target(r, l) \in Keys /\ store'[Target(r, l)] = before[c][l]
  <2>1. Target(r, l) \in Keys /\ store[Target(r, l)] = before[c][l]
    BY DEF Copying, Landed
  <2>2. Target(r, l) # Target(r, k)
    BY <1>1, <1>2, <1>3, <1>7, TargetIsOneToOne
  <2> QED BY <1>3, <2>1, <2>2 DEF Copied
<1> QED BY <1>3, <1>5, <1>6, <1>7

LEMMA CopyOwn ==
    ASSUME Inv, NEW c \in Callers, NEW k \in Keys, Copy(c, k)
    PROVE  Own(c)'
<1> DEFINE r == req[c]
<1>1. /\ pc[c] = "copy" /\ r.op = "rename" /\ answer[c] = "none" /\ k \in todo[c]
      /\ CanCopy(c, k) /\ store' = Copied(c, k) /\ session' = session /\ TypeOK
      /\ \A l \in todo[c] \cup listed[c] : Within(r.path, l)
      /\ todo[c] \subseteq Keys /\ listed[c] \subseteq Keys
  BY DEF Copy, At, Inv, CallerInv, OnCourse, Resting, TypeOK
<1>2. /\ Renaming(c)' => Renaming(c)
      /\ req'[c] = r /\ before'[c] = before[c]
  BY <1>1, RenamingStays DEF Resting
<1>3. Sources(c)' = Sources(c)
  BY <1>2, SourcesStay
<1>4. RemoveInv(c)'
  BY <1>1, <1>2 DEF RemoveInv
<1>5. /\ listed[c] \cup {k} \in SUBSET Keys /\ todo[c] \ {k} \in SUBSET Keys
      /\ {} \in SUBSET Keys /\ "copy" \in Labels /\ "delete" \in Labels
  BY <1>1 DEF Labels
<1>6. ASSUME Renaming(c)
      PROVE  \E keys \in Sources(c) :
                /\ Copying(c, keys)
                /\ \A l \in Keys : Within(r.path, l) => store'[l] = before[c][l]
                /\ \A l \in listed[c] \cup {k} :
                      Target(r, l) \in Keys /\ store'[Target(r, l)] = before[c][l]
  <2>1. PICK keys \in Sources(c) : Copying(c, keys)
    BY <1>1, <1>6 DEF Inv, CallerInv, RenameInv
  <2> QED BY <1>1, <1>2, <1>6, <2>1, CopyEffect
<1>7. CASE todo[c] = {k}
  <2>1. Loop(c, "delete", listed[c] \cup {k}, {})
    BY <1>7 DEF Copy
  <2>2. pc'[c] = "delete" /\ answer'[c] = "none" /\ todo'[c] = listed[c] \cup {k}
    BY <1>1, <1>5, <2>1, LoopIs, ZenonT(60)
  <2>3. OnCourse(c)'
    <3>1. \A l \in todo'[c] : Within(req'[c].path, l)
      BY <1>1, <1>2, <2>2
    <3> QED BY <1>1, <1>2, <2>2, <3>1 DEF OnCourse, Within
  <2>4. ASSUME Renaming(c) PROVE (\E keys \in Sources(c) : Deleting(c, keys))'
    <3>1. PICK keys \in Sources(c) :
                /\ Copying(c, keys)
                /\ \A l \in Keys : Within(r.path, l) => store'[l] = before[c][l]
                /\ \A l \in listed[c] \cup {k} :
                      Target(r, l) \in Keys /\ store'[Target(r, l)] = before[c][l]
      BY <1>6, <2>4
    <3>2. keys = listed[c] \cup {k}
      BY <1>7, <3>1 DEF Copying
    <3>3. todo'[c] = keys
      BY <2>2, <3>2
    <3>4. \A l \in keys : Landed(c, l)'
      BY <1>2, <3>1, <3>2 DEF Landed, Target, Keys, Placeholder
    <3>5. Untouched(c, keys)'
      BY <1>2, <3>1 DEF Untouched, Within
    <3>6. Deleting(c, keys)'
      BY <3>3, <3>4, <3>5 DEF Deleting
    <3> QED BY <1>3, <3>6
  <2>5. RenameInv(c)'
    BY <1>2, <2>2, <2>4, Zenon DEF RenameInv, Resting
  <2> QED BY <1>4, <2>3, <2>5 DEF Own
<1>8. CASE todo[c] # {k}
  <2>1. Loop(c, "copy", todo[c] \ {k}, listed[c] \cup {k})
    BY <1>8 DEF Copy
  <2>2. /\ pc'[c] = "copy" /\ answer'[c] = "none"
        /\ todo'[c] = todo[c] \ {k} /\ listed'[c] = listed[c] \cup {k}
    BY <1>1, <2>1 DEF Loop, TypeOK
  <2>3. OnCourse(c)'
    <3>1. \A l \in todo'[c] \cup listed'[c] : Within(req'[c].path, l)
      BY <1>1, <1>2, <2>2
    <3> QED BY <1>1, <1>2, <2>2, <3>1 DEF OnCourse, Within
  <2>4. ASSUME Renaming(c) PROVE (\E keys \in Sources(c) : Copying(c, keys))'
    <3>1. PICK keys \in Sources(c) :
                /\ Copying(c, keys)
                /\ \A l \in Keys : Within(r.path, l) => store'[l] = before[c][l]
                /\ \A l \in listed[c] \cup {k} :
                      Target(r, l) \in Keys /\ store'[Target(r, l)] = before[c][l]
      BY <1>6, <2>4
    <3>2. todo'[c] \cup listed'[c] = keys
      BY <1>1, <2>2, <3>1 DEF Copying
    <3>3. \A l \in listed'[c] : Landed(c, l)'
      BY <1>2, <2>2, <3>1 DEF Landed, Target, Keys, Placeholder
    <3>4. Untouched(c, {})'
      BY <1>2, <3>1 DEF Untouched, Within
    <3>5. Copying(c, keys)'
      BY <3>2, <3>3, <3>4 DEF Copying
    <3> QED BY <1>3, <3>5
  <2>5. RenameInv(c)'
    BY <1>2, <2>2, <2>4, Zenon DEF RenameInv, Resting
  <2> QED BY <1>4, <2>3, <2>5 DEF Own
<1> QED BY <1>7, <1>8

(* A rename whose objects have all arrived may lose one at the source.     *)
LEMMA DeleteEffect ==
    ASSUME TypeOK, NEW c \in Callers, Renaming(c), NEW keys \in Sources(c),
           Deleting(c, keys), NEW k \in todo[c], store' \in {store, Deleted(k)},
           req'[c] = req[c], before'[c] = before[c]
    PROVE  /\ \A l \in keys : Landed(c, l)'
           /\ Untouched(c, keys)'
           /\ Kept(c, AsFile(c) \cup AsDirectory(c))'
<1> DEFINE r == req[c]
<1>1. keys \subseteq AsFile(c) \cup AsDirectory(c) /\ k \in keys
  BY DEF Sources, Deleting
<1>2. \A l \in AsFile(c) \cup AsDirectory(c) :
         l \in Keys /\ Within(r.path, l) /\ ~Within(r.to, l)
  BY SourcesAreWithin, SourceIsOutside
<1>3. store \in [Keys -> Contents \cup {NoObject}] /\ Keys' = Keys
  BY DEF TypeOK, Keys, Placeholder
<1>4. \A l \in Keys \ {k} : store'[l] = store[l]
  BY <1>3 DEF Deleted
<1>5. ASSUME NEW l \in keys PROVE Landed(c, l)'
  <2>1. Target(r, l) \in Keys /\ store[Target(r, l)] = before[c][l]
    BY DEF Deleting, Landed
  <2>2. Target(r, l) # k
    BY <1>1, <1>2, <2>1, TargetIsOutside
  <2>3. store'[Target(r, l)] = before[c][l]
    BY <1>4, <2>1, <2>2
  <2> QED BY <1>3, <2>1, <2>3 DEF Landed, Target
<1>6. \A l \in Keys \ keys : Within(r.path, l) => store'[l] = before[c][l]
  BY <1>1, <1>4 DEF Deleting, Untouched
<1>7. Untouched(c, keys)'
  BY <1>3, <1>6 DEF Untouched, Within
<1>8. ASSUME NEW l \in (AsFile(c) \cup AsDirectory(c))'
      PROVE  \/ store'[l] = before'[c][l]
             \/ Landed(c, l)'
  <2>1. l \in AsFile(c) \cup AsDirectory(c)
    BY SourcesStay
  <2> QED BY <1>2, <1>5, <1>6, <2>1
<1>9. Kept(c, AsFile(c) \cup AsDirectory(c))'
  BY <1>8 DEF Kept, Landed
<1> QED BY <1>5, <1>7, <1>9

(* Whatever a call has done so far, a rename has lost nothing.             *)
LEMMA RenameKeeps ==
    ASSUME Inv, NEW c \in Callers, Renaming(c)
    PROVE  Kept(c, AsFile(c) \cup AsDirectory(c))
<1> DEFINE objects == AsFile(c) \cup AsDirectory(c)
<1>1. TypeOK /\ RenameInv(c) /\ OnCourse(c) /\ pc[c] \in Labels
  BY DEF Inv, CallerInv, TypeOK
<1>2. \A k \in objects : k \in Keys /\ Within(req[c].path, k) /\ ~Within(req[c].to, k)
  BY <1>1, SourcesAreWithin, SourceIsOutside
<1>3. pc[c] \in {"stat", "list", "copy", "delete"} \cup Resting
  BY <1>1 DEF OnCourse, Labels, Resting, Renaming
<1>4. CASE pc[c] \in {"stat", "list"}
  <2>1. Unwritten(c)
    BY <1>1, <1>4 DEF RenameInv
  <2>2. \A k \in objects : k \in Region(req[c])
    BY <1>1, <1>2, RegionOf DEF TypeOK
  <2> QED BY <2>1, <2>2 DEF Unwritten, Kept
<1>5. CASE pc[c] = "copy"
  BY <1>1, <1>2, <1>5 DEF RenameInv, Copying, Untouched, Kept
<1>6. CASE pc[c] = "delete"
  <2>1. PICK keys \in Sources(c) : Deleting(c, keys)
    BY <1>1, <1>6 DEF RenameInv
  <2> QED BY <1>2, <2>1 DEF Deleting, Landed, Untouched, Kept
<1>7. CASE pc[c] \in Resting
  BY <1>1, <1>7 DEF RenameInv
<1> QED BY <1>3, <1>4, <1>5, <1>6, <1>7

LEMMA CopyFailsOwn ==
    ASSUME Inv, NEW c \in Callers, NEW k \in Keys, CopyFails(c, k)
    PROVE  Own(c)'
<1>1. /\ pc[c] = "copy" /\ k \in todo[c] /\ session' = session /\ TypeOK
      /\ UNCHANGED store \/ (CanCopy(c, k) /\ store' = Copied(c, k))
      /\ Return(c, "error") /\ "error" \in Answers
  BY DEF CopyFails, At, Perhaps, Inv, Answers
<1>2. pc'[c] = "idle" /\ answer'[c] = "error"
  BY <1>1, ReturnIs
<1>3. /\ Renaming(c)' => Renaming(c)
      /\ req'[c] = req[c] /\ before'[c] = before[c]
  BY <1>1, RenamingStays DEF Resting
<1>4. ASSUME Renaming(c) PROVE Kept(c, AsFile(c) \cup AsDirectory(c))'
  <2>1. PICK keys \in Sources(c) : Copying(c, keys)
    BY <1>1, <1>4 DEF Inv, CallerInv, RenameInv
  <2>2. \A l \in Keys : Within(req[c].path, l) => store'[l] = before[c][l]
    <3>1. CASE UNCHANGED store
      BY <2>1, <3>1 DEF Copying, Untouched
    <3>2. CASE CanCopy(c, k) /\ store' = Copied(c, k)
      BY <1>1, <1>3, <1>4, <2>1, <3>2, CopyEffect
    <3> QED BY <1>1, <3>1, <3>2
  <2> QED BY <1>1, <1>3, <1>4, <2>2, UntouchedIsKept
<1> QED BY <1>2, <1>3, <1>4, Rests DEF Resting

LEMMA DeleteOwn ==
    ASSUME Inv, NEW c \in Callers, NEW k \in Keys, Delete(c, k)
    PROVE  Own(c)'
<1>1. /\ pc[c] = "delete" /\ k \in todo[c] /\ session' = session /\ TypeOK
      /\ store' = Deleted(k) /\ answer[c] = "none"
      /\ req[c].op \in {"remove", "rename"} /\ todo[c] \subseteq Keys
  BY DEF Delete, At, Inv, CallerInv, OnCourse, Resting, TypeOK
<1>2. /\ Renaming(c)' => Renaming(c)
      /\ req'[c] = req[c] /\ before'[c] = before[c] /\ misled'[c] = misled[c]
      /\ disturbed'[c] = disturbed[c]
  BY <1>1, RenamingStays DEF Resting
<1>3. Sources(c)' = Sources(c)
  BY <1>2, SourcesStay
<1>4. ASSUME Renaming(c)
      PROVE  \E keys \in Sources(c) :
                /\ Deleting(c, keys)
                /\ \A l \in keys : Landed(c, l)'
                /\ Untouched(c, keys)'
                /\ Kept(c, AsFile(c) \cup AsDirectory(c))'
  <2>1. PICK keys \in Sources(c) : Deleting(c, keys)
    BY <1>1, <1>4 DEF Inv, CallerInv, RenameInv
  <2> QED BY <1>1, <1>2, <1>4, <2>1, DeleteEffect
<1>5. ASSUME NEW keys \in Sources(c), Deleting(c, keys), TypeOK
      PROVE  \A l \in keys \ (todo[c] \ {k}) : store'[l] = NoObject
  <2>1. keys \subseteq Keys /\ store \in [Keys -> Contents \cup {NoObject}]
    BY <1>5, SourcesAreWithin DEF Sources, TypeOK
  <2> QED BY <1>1, <1>5, <2>1 DEF Deleting, Deleted
<1>6. CASE todo[c] = {k}
  <2>1. Return(c, "ok") /\ "ok" \in Answers
    BY <1>6 DEF Delete, Answers
  <2>2. pc'[c] = "idle"
    BY <1>1, <2>1, ReturnIs
  <2>3. ASSUME Renaming(c)
        PROVE  /\ Kept(c, AsFile(c) \cup AsDirectory(c))'
               /\ (\E keys \in Sources(c) : Moved(c, keys))'
    <3>1. PICK keys \in Sources(c) :
                /\ Deleting(c, keys)
                /\ \A l \in keys : Landed(c, l)'
                /\ Untouched(c, keys)'
                /\ Kept(c, AsFile(c) \cup AsDirectory(c))'
      BY <1>4, <2>3
    <3>2. \A l \in keys : store'[l] = NoObject
      BY <1>1, <1>5, <1>6, <3>1
    <3>3. Moved(c, keys)'
      BY <3>1, <3>2 DEF Moved
    <3> QED BY <1>3, <3>1, <3>3
  <2> QED BY <1>2, <2>2, <2>3, Rests, Zenon DEF Resting
<1>7. CASE todo[c] # {k}
  <2>1. Loop(c, "delete", todo[c] \ {k}, {})
    BY <1>7 DEF Delete
  <2>2. pc'[c] = "delete" /\ answer'[c] = "none" /\ todo'[c] = todo[c] \ {k}
    BY <1>1, <2>1 DEF Loop, TypeOK
  <2>3. OnCourse(c)'
    <3>1. req[c].op = "remove" =>
             todo'[c] \subseteq {req[c].path, Placeholder(req[c].path)}
      BY <1>1, <2>2 DEF Inv, CallerInv, OnCourse
    <3>2. req[c].op = "rename" => \A l \in todo'[c] : Within(req[c].path, l)
      BY <1>1, <2>2 DEF Inv, CallerInv, OnCourse
    <3> QED BY <1>1, <1>2, <2>2, <3>1, <3>2 DEF OnCourse, Placeholder, Within
  <2>4. ASSUME Renaming(c) PROVE (\E keys \in Sources(c) : Deleting(c, keys))'
    <3>1. PICK keys \in Sources(c) :
                /\ Deleting(c, keys)
                /\ \A l \in keys : Landed(c, l)'
                /\ Untouched(c, keys)'
                /\ Kept(c, AsFile(c) \cup AsDirectory(c))'
      BY <1>4, <2>4
    <3>2. \A l \in keys \ todo'[c] : store'[l] = NoObject
      BY <1>1, <1>5, <2>2, <3>1
    <3>3. todo'[c] \subseteq keys
      BY <2>2, <3>1 DEF Deleting
    <3>4. Deleting(c, keys)'
      BY <3>1, <3>2, <3>3 DEF Deleting
    <3> QED BY <1>3, <3>4
  <2>5. RenameInv(c)'
    BY <1>2, <2>2, <2>4, Zenon DEF RenameInv, Resting
  <2>6. ASSUME req[c].op = "remove", ~disturbed[c], ~misled[c] PROVE FALSE
    BY <1>1, <1>7, <2>6 DEF Inv, CallerInv, RemoveInv
  <2>7. RemoveInv(c)'
    BY <1>2, <2>6, Zenon DEF RemoveInv
  <2> QED BY <2>3, <2>5, <2>7 DEF Own
<1> QED BY <1>6, <1>7

LEMMA DeleteFailsOwn ==
    ASSUME Inv, NEW c \in Callers, NEW k \in Keys, DeleteFails(c, k)
    PROVE  Own(c)'
<1>1. /\ pc[c] = "delete" /\ k \in todo[c] /\ session' = session /\ TypeOK
      /\ store' \in {store, Deleted(k)}
      /\ Return(c, "error") /\ "error" \in Answers
  BY DEF DeleteFails, At, Perhaps, Inv, Answers
<1>2. pc'[c] = "idle" /\ answer'[c] = "error"
  BY <1>1, ReturnIs
<1>3. /\ Renaming(c)' => Renaming(c)
      /\ req'[c] = req[c] /\ before'[c] = before[c]
  BY <1>1, RenamingStays DEF Resting
<1>4. ASSUME Renaming(c) PROVE Kept(c, AsFile(c) \cup AsDirectory(c))'
  <2>1. PICK keys \in Sources(c) : Deleting(c, keys)
    BY <1>1, <1>4 DEF Inv, CallerInv, RenameInv
  <2> QED BY <1>1, <1>3, <1>4, <2>1, DeleteEffect
<1> QED BY <1>2, <1>3, <1>4, Rests DEF Resting

LEMMA CallOnNilOwn ==
    ASSUME Inv, NEW c \in Callers, CallOnNil(c)
    PROVE  Own(c)'
<1>1. /\ pc[c] \notin Resting /\ answer[c] = "none" /\ pc'[c] = "gone"
      /\ UNCHANGED <<store, answer>> /\ session' = session
  BY DEF CallOnNil, Inv, CallerInv, OnCourse, Resting
<1>2. /\ Renaming(c)' => Renaming(c)
      /\ req'[c] = req[c] /\ before'[c] = before[c]
  BY <1>1, RenamingStays
<1>3. /\ AsFile(c)' = AsFile(c) /\ AsDirectory(c)' = AsDirectory(c)
  BY <1>2, SourcesStay
<1>4. ASSUME Renaming(c) PROVE Kept(c, AsFile(c) \cup AsDirectory(c))'
  <2>1. Kept(c, AsFile(c) \cup AsDirectory(c))
    BY <1>4, RenameKeeps
  <2> QED BY <1>1, <1>2, <1>3, <2>1 DEF Kept, Target, Keys, Placeholder
<1> QED BY <1>1, <1>2, <1>4, Rests DEF Resting

-----------------------------------------------------------------------------
(* Another caller's step.                                                  *)
LEMMA OthersStep ==
    ASSUME Inv, NEW c \in Callers, NEW d \in Callers \ {c}, Step(d)
    PROVE  CallerInv(c)'
<1> DEFINE r == req[c]
           objects == AsFile(c) \cup AsDirectory(c)
<1>1. Spared(c) /\ TypeOK /\ r \in Requests /\ CallerInv(c) /\ todo[c] \subseteq Keys
  BY StepShape DEF Inv, TypeOK
<1>2. req'[c] = r /\ misled'[c] = misled[c] /\ before'[c] = before[c]
  <2>1. ASSUME NEW q \in Requests, Begin(d, q)
        PROVE  req'[c] = r /\ misled'[c] = misled[c] /\ before'[c] = before[c]
    BY <1>1, <2>1 DEF Begin, TypeOK
  <2> QED BY <1>1, <2>1, StepSession DEF TypeOK, NoFile, session
<1>3. OnCourse(c)'
  <2>1. OnCourse(c)
    BY DEF Inv, CallerInv
  <2>2. CASE pc'[c] = "gone"
    BY <2>2 DEF OnCourse, Resting
  <2>3. CASE pc'[c] = pc[c]
    BY <1>1, <1>2, <2>1, <2>3 DEF Spared, OnCourse, Within, Placeholder
  <2> QED BY <1>1, <2>2, <2>3 DEF Spared
<1>4. Alone(c)'
  <2> SUFFICES ASSUME ~disturbed'[c]
               PROVE  \A e \in Callers \ {c} :
                         pc'[e] \notin Resting => ~Disturbs(req[e], req[c])'
    BY DEF Alone
  <2>1. \A e \in Callers \ {c} : pc'[e] \notin Resting => ~Disturbs(req'[e], req'[c])
    BY StepDisturbs
  <2> QED BY <2>1 DEF Disturbs, Touched, Region, Keys, Placeholder
<1>5. /\ AsFile(c)' = AsFile(c) /\ AsDirectory(c)' = AsDirectory(c)
      /\ Sources(c)' = Sources(c) /\ Region(req[c])' = Region(r)
  BY <1>2, SourcesStay DEF Region, Keys, Placeholder
<1>6. ASSUME ~disturbed'[c]
      PROVE  /\ ~disturbed[c]
             /\ \A k \in Region(r) : store'[k] = store[k]
             /\ \A k \in Keys : Within(r.path, k) => store'[k] = store[k]
             /\ \A k \in Keys : Within(r.path, k) /\ Target(r, k) \in Keys =>
                   store'[Target(r, k)] = store[Target(r, k)]
             /\ Unwritten(c) => Unwritten(c)'
  <2>1. ~disturbed[c] /\ \A k \in Region(r) : store'[k] = store[k]
    BY <1>6, StepDisturbs, RegionStays
  <2>2. \A k \in Keys : Within(r.path, k) \/ Within(r.to, k) => k \in Region(r)
    BY <1>1, RegionOf
  <2>3. \A k \in Keys : Within(r.path, k) => Within(r.to, Target(r, k))
    BY <1>1, TargetIsWithin
  <2>4. Unwritten(c) => Unwritten(c)'
    BY <1>2, <1>5, <2>1 DEF Unwritten
  <2> QED BY <2>1, <2>2, <2>3, <2>4
<1>7. RenameInv(c)'
  <2> SUFFICES ASSUME Renaming(c)' PROVE RenameInv(c)'
    BY DEF RenameInv
  <2>1. Renaming(c) /\ ~disturbed'[c]
    BY <1>1, <1>2, <1>6 DEF Renaming, Apart, Spared
  <2>2. \A keys \in Sources(c) : \A k \in keys : k \in objects
    BY DEF Sources
  <2>3. \A k \in objects : k \in Keys /\ Within(r.path, k)
    BY <1>1, SourcesAreWithin
  <2>4. ASSUME NEW k \in Keys, Within(r.path, k)
        PROVE  /\ Landed(c, k) => Landed(c, k)'
               /\ store'[k] = store[k] /\ (Target(req[c], k) \in Keys)' = (Target(r, k) \in Keys)
    BY <1>2, <1>6, <2>1, <2>4 DEF Landed, Target, Keys, Placeholder
  <2>5. Kept(c, objects)'
    <3>1. Kept(c, objects)
      BY <2>1, RenameKeeps
    <3> QED BY <1>2, <1>5, <2>3, <2>4, <3>1 DEF Kept, Landed
  <2>6. CASE pc'[c] = "gone" /\ pc[c] \notin Resting
    <3>1. answer'[c] = "none"
      BY <1>1, <2>6 DEF Spared, CallerInv, OnCourse
    <3> QED BY <2>5, <2>6, <3>1 DEF RenameInv, Resting
  <2>7. CASE pc'[c] = pc[c]
    <3>1. pc'[c] \in {"stat", "list"} => Unwritten(c)'
      BY <1>1, <1>6, <2>1, <2>7 DEF CallerInv, RenameInv
    <3>2. ASSUME NEW keys \in Sources(c), Copying(c, keys) PROVE Copying(c, keys)'
      <4>1. \A k \in listed[c] : k \in keys /\ k \in Keys /\ Within(r.path, k)
        BY <2>2, <2>3, <3>2 DEF Copying
      <4>2. Untouched(c, {})'
        BY <1>2, <2>4, <3>2 DEF Copying, Untouched, Within, Keys, Placeholder
      <4> QED BY <1>1, <2>4, <3>2, <4>1, <4>2 DEF Copying, Spared
    <3>3. ASSUME NEW keys \in Sources(c), Deleting(c, keys) PROVE Deleting(c, keys)'
      <4>1. \A k \in keys : k \in Keys /\ Within(r.path, k)
        BY <2>2, <2>3
      <4>2. Untouched(c, keys)'
        BY <1>2, <2>4, <3>3 DEF Deleting, Untouched, Within, Keys, Placeholder
      <4> QED BY <1>1, <2>4, <3>3, <4>1, <4>2 DEF Deleting, Spared
    <3>4. ASSUME NEW keys \in Sources(c), Moved(c, keys) PROVE Moved(c, keys)'
      <4>1. \A k \in keys : k \in Keys /\ Within(r.path, k)
        BY <2>2, <2>3
      <4> QED BY <2>4, <3>4, <4>1 DEF Moved
    <3> QED BY <1>1, <1>5, <2>1, <2>5, <2>7, <3>1, <3>2, <3>3, <3>4
            DEF CallerInv, RenameInv, Spared
  <2>8. CASE pc'[c] = "gone" /\ pc[c] = "idle"
    <3>1. pc[c] \in Resting /\ pc'[c] \in Resting /\ answer'[c] = answer[c]
      BY <1>1, <2>8 DEF Resting, Spared
    <3>2. ASSUME NEW keys \in Sources(c), Moved(c, keys) PROVE Moved(c, keys)'
      <4>1. \A k \in keys : k \in Keys /\ Within(r.path, k)
        BY <2>2, <2>3
      <4> QED BY <1>2, <2>4, <3>2, <4>1 DEF Moved, Landed
    <3> QED BY <1>1, <1>5, <2>1, <2>5, <3>1, <3>2 DEF CallerInv, RenameInv, Resting
  <2> QED BY <1>1, <2>6, <2>7, <2>8 DEF Spared, Resting
<1>8. RemoveInv(c)'
  <2> SUFFICES ASSUME r.op = "remove", ~disturbed'[c], ~misled[c] PROVE RemoveInv(c)'
    BY <1>2 DEF RemoveInv
  <2>1. ~disturbed[c] /\ (Unwritten(c) => Unwritten(c)')
    BY <1>6
  <2>2. (Below(req[c].path) \cap Present)' = Below(req[c].path) \cap Present
    BY <1>1, <1>2, <1>6, RegionOf DEF Below, Present, Keys, Placeholder
  <2>3. CASE pc'[c] = "gone"
    BY <2>3 DEF RemoveInv
  <2>4. CASE pc'[c] = pc[c]
    BY <1>1, <1>2, <1>5, <2>1, <2>2, <2>4 DEF CallerInv, RemoveInv, Spared, Placeholder
  <2> QED BY <1>1, <2>3, <2>4 DEF Spared
<1> QED BY <1>3, <1>4, <1>7, <1>8 DEF CallerInv

-----------------------------------------------------------------------------
LEMMA OwnStep ==
    ASSUME Inv, NEW c \in Callers, Step(c)
    PROVE  CallerInv(c)'
<1>1. Own(c)'
  BY BeginOwn, PlainOwn, FileFoundOwn, NoFileOwn, ListRemoveOwn, ListRenameOwn,
     ListFailsOwn, CopyOwn, CopyFailsOwn, DeleteOwn, DeleteFailsOwn, CallOnNilOwn
     DEF Step
<1> QED BY <1>1, OwnAlone DEF Own, CallerInv

LEMMA Invariance == Spec => []Inv
<1>1. ASSUME Inv, [Next]_vars PROVE Inv'
  <2>1. TypeOK'
    BY <1>1, TypeStep
  <2>2. ASSUME NEW d \in Callers, Step(d) PROVE MarksAreEmpty' /\ \A c \in Callers : CallerInv(c)'
    <3>1. MarksAreEmpty'
      BY <1>1, <2>2, StepWrites, MarksStep
    <3>2. ASSUME NEW c \in Callers PROVE CallerInv(c)'
      BY <1>1, <2>2, OwnStep, OthersStep
    <3> QED BY <3>1, <3>2
  <2>3. ASSUME Mount \/ Unmount \/ UNCHANGED vars
        PROVE  MarksAreEmpty' /\ \A c \in Callers : CallerInv(c)'
    <3>1. UNCHANGED <<store, puts, calls, pc, req, todo, listed, answer, before, misled,
                      disturbed>>
      BY <2>3 DEF Mount, Unmount, vars
    <3>2. MarksAreEmpty'
      BY <1>1, <3>1 DEF Inv, MarksAreEmpty, Placeholder
    <3>3. ASSUME NEW c \in Callers PROVE CallerInv(c)'
      <4>1. /\ AsFile(c)' = AsFile(c) /\ AsDirectory(c)' = AsDirectory(c)
            /\ Sources(c)' = Sources(c)
        BY <3>1, SourcesStay
      <4>2. OnCourse(c)' /\ Alone(c)'
        <5>1. OnCourse(c)'
          BY <1>1, <3>1 DEF Inv, CallerInv, OnCourse, Within, Placeholder
        <5>2. \A d \in Callers : Disturbs(req[d], req[c])' <=> Disturbs(req[d], req[c])
          BY <3>1 DEF Disturbs, Touched, Region, Keys, Placeholder
        <5> QED BY <1>1, <3>1, <5>1, <5>2 DEF Inv, CallerInv, Alone
      <4>3. RenameInv(c)'
        <5>1. Keys' = Keys /\ \A k : Target(req[c], k)' = Target(req[c], k)
          BY <3>1 DEF Keys, Placeholder, Target
        <5>2. ASSUME NEW keys
              PROVE  /\ Copying(c, keys) => Copying(c, keys)'
                     /\ Deleting(c, keys) => Deleting(c, keys)'
                     /\ Moved(c, keys) => Moved(c, keys)'
                     /\ Kept(c, keys) => Kept(c, keys)'
          BY <3>1, <5>1 DEF Copying, Deleting, Landed, Untouched, Within, Moved, Kept
        <5>3. Renaming(c)' => Renaming(c)
          BY <3>1 DEF Renaming, Apart
        <5>4. Kept(c, AsFile(c) \cup AsDirectory(c)) => Kept(c, AsFile(c) \cup AsDirectory(c))'
          BY <4>1, <5>2
        <5>5. RenameInv(c)
          BY <1>1 DEF Inv, CallerInv
        <5>6. Unwritten(c) => Unwritten(c)'
          BY <3>1, UnwrittenStays
        <5> QED BY <3>1, <5>6, <4>1, <5>2, <5>3, <5>4, <5>5 DEF RenameInv
      <4>4. RemoveInv(c)'
        <5>1. Unwritten(c) => Unwritten(c)'
          BY <3>1, UnwrittenStays
        <5> QED BY <1>1, <3>1, <4>1, <5>1
                DEF Inv, CallerInv, RemoveInv, Below, Present, Keys, Placeholder
      <4> QED BY <4>2, <4>3, <4>4 DEF CallerInv
    <3> QED BY <3>2, <3>3
  <2>4. (\E d \in Callers : Step(d)) \/ Mount \/ Unmount \/ UNCHANGED vars
    BY <1>1 DEF Next
  <2> QED BY <2>1, <2>2, <2>3, <2>4 DEF Inv
<1> QED BY InitInv, <1>1, PTL DEF Spec

(* Any number of callers, any paths: every variable keeps its type.        *)
THEOREM TypeCorrect == Spec => []TypeOK
<1>1. Inv => TypeOK
  BY DEF Inv
<1> QED BY <1>1, Invariance, PTL

(* However many objects there are to move, whichever call fails, wherever  *)
(* Unmount takes the client away: what an undisturbed Rename was to move   *)
(* is where it was or where it goes.                                       *)
THEOREM RenameLosesNothing == Spec => []RenameKeepsContents
<1>1. Inv => RenameKeepsContents
  BY RenameKeeps DEF RenameKeepsContents
<1> QED BY <1>1, Invariance, PTL

(* And when it says that it has moved them, it has moved all of them.      *)
THEOREM SuccessMovesAll == Spec => []RenameIsComplete
<1>1. Inv => RenameIsComplete
  <2> SUFFICES ASSUME Inv, NEW c \in Callers, Renaming(c), answer[c] = "ok"
               PROVE  \E keys \in Sources(c) : Arrived(c, keys)
    BY DEF RenameIsComplete, Sources
  <2>1. PICK keys \in Sources(c) : Moved(c, keys)
    BY DEF Inv, CallerInv, OnCourse, RenameInv
  <2> QED BY <2>1 DEF Moved, Landed, Arrived
<1> QED BY <1>1, Invariance, PTL

(* Remove deletes the object of its path, or the mark of the directory,    *)
(* and no object below; unless misled or disturbed, it leaves nothing      *)
(* there when it succeeds.                                                 *)
THEOREM RemovesExactly == Spec => RemoveIsExact
<1> DEFINE A == \A c \in Callers :
                   req[c].op = "remove" => SparesChildren(c) /\ LeavesNothing(c)
<1>1. ASSUME Inv, [Next]_vars PROVE [A]_vars
  <2> SUFFICES ASSUME Next, NEW c \in Callers, req[c].op = "remove"
               PROVE  SparesChildren(c) /\ LeavesNothing(c)
    BY <1>1
  <2> DEFINE path == req[c].path
             mark == Placeholder(path)
  <2>1. TypeOK /\ OnCourse(c) /\ RemoveInv(c) /\ path \in Paths /\ store[mark] \in {0, NoObject}
    BY <1>1 DEF Inv, CallerInv, TypeOK, Requests, MarksAreEmpty
  <2>2. SparesChildren(c)
    BY <2>1 DEF OnCourse, SparesChildren
  <2>3. ASSUME pc[c] = "delete", answer'[c] = "ok", ~misled[c], ~disturbed[c]
        PROVE  /\ store'[path] = NoObject
               /\ AsFile(c) = {} => \A k \in Below(path) : store'[k] = NoObject
    <3>1. answer[c] = "none"
      BY <2>1, <2>3 DEF OnCourse, Resting
    <3>2. Step(c)
      <4>1. CASE Mount \/ Unmount
        BY <2>3, <3>1, <4>1 DEF Mount, Unmount
      <4>2. ASSUME NEW d \in Callers \ {c}, Step(d) PROVE FALSE
        BY <1>1, <2>3, <3>1, <4>2, StepShape DEF Spared
      <4> QED BY <4>1, <4>2 DEF Next
    <3>3. ~CallOnNil(c) /\ \A k \in Keys : ~DeleteFails(c, k)
      <4>1. ASSUME NEW k \in Keys, DeleteFails(c, k) PROVE FALSE
        BY <2>1, <2>3, <4>1 DEF DeleteFails, Return, TypeOK
      <4> QED BY <2>3, <3>1, <4>1 DEF CallOnNil
    <3>4. PICK k \in Keys : Delete(c, k)
      BY <2>3, <3>2, <3>3
         DEF Step, Begin, Put, PutFails, PutOrphaned, Mkdir, MkdirFails, FileFound,
             NoFile, ListStat, ListRemove, ListRename, ListFails, Copy, CopyFails, At
    <3>5. k \in todo[c] /\ store' = [store EXCEPT ![k] = NoObject]
      BY <3>4 DEF Delete, Deleted
    <3>6. Unwritten(c) /\ store \in [Keys -> Contents \cup {NoObject}]
      BY <2>1, <2>3 DEF RemoveInv, TypeOK
    <3>7. CASE todo[c] = {path} /\ AsFile(c) # {}
      BY <2>1, <3>5, <3>6, <3>7 DEF Keys
    <3>8. CASE /\ todo[c] = {mark} /\ AsFile(c) = {}
               /\ Below(path) \cap Present \subseteq todo[c]
      <4>1. path \in Keys /\ path # mark /\ store[path] = NoObject
        BY <2>1, <3>6, <3>8, MarksAreApart, UnwrittenIsSeen DEF Present, Keys
      <4>2. \A l \in Below(path) : l \in Keys /\ (l # mark => store[l] = NoObject)
        BY <3>8 DEF Below, Present
      <4> QED BY <3>5, <3>6, <3>8, <4>1, <4>2
    <3> QED BY <2>1, <2>3, <3>7, <3>8 DEF RemoveInv
  <2>4. LeavesNothing(c)
    BY <2>3 DEF LeavesNothing
  <2> QED BY <2>2, <2>4
<1> QED BY <1>1, Invariance, PTL DEF Spec, RemoveIsExact

===============================================================================
