--------------------------- MODULE OmadaSyncProofs ---------------------------
(***************************************************************************)
(* Theorems about OmadaSync, for any lists of chunks and any number of     *)
(* faults, edits and kills.  First where a run may be and which ids and    *)
(* names go together, with the types; then what the controller holds while *)
(* nothing but the run has changed it, on which the rest stands.           *)
(***************************************************************************)
EXTENDS OmadaSync, FiniteSetTheorems, WellFoundedInduction, TLAPS

-----------------------------------------------------------------------------
(* The invariants *)

(* The ids of a route: no more than there are names.                       *)
FewRefs(c) ==
    IsFiniteSet(c.route.refs) /\ Cardinality(c.route.refs) <= MaxGroups

(* Which locals a stage has.                                               *)
PlaceInv ==
    /\ pc # "idle" => outcome = "none"
    /\ pc \in {"idle", "disable", "checkDisabled"}
       => todo = {} /\ mutations = <<>> /\ routeDone = "none" /\ extra = {}
    /\ pc \in {"disable", "checkDisabled"} => wanted.chunks = <<>>
    /\ pc \notin {"idle", "disable", "checkDisabled"} => wanted.chunks # <<>>
    /\ pc \in {"route", "findRoute", "verify", "cleanup"} => todo = {}
    /\ pc \in {"groups", "route", "findRoute"} => routeDone = "none"
    /\ pc = "findRoute" => ~seen.route.exists
    /\ pc = "undoGroups" => mutations # <<>>
    /\ pc = "undoRoute" => routeDone # "none"
    /\ pc = "verify" /\ routeDone = "none" => seen.route = DesiredRoute
    /\ todo \subseteq DesiredNames
    /\ extra \subseteq ExtraGroups(seen)

(* Every group that the run knows of.                                      *)
Mutated == {m.group : m \in Range(mutations)}
Known == remote.groups \cup seen.groups \cup Mutated

(* Ids and names say the same, and there is one group for each.            *)
Consistent(G) == \A g, h \in G : g.id = h.id <=> g.name = h.name
OnePerId(G) == \A g, h \in G : g.id = h.id => g = h

(* A mutation is undone by what was read, or by a deletion of what was not *)
(* there.                                                                  *)
Undoes(m) ==
    /\ m.group.name \in DesiredNames
    /\ m.action = "restore" => m.group \in seen.groups
    /\ m.action = "delete" =>
           /\ Named(seen, m.group.name) = {}
           /\ m.group.dest = wanted.chunks[m.group.name]

ObjectInv ==
    /\ Consistent(Known) /\ OnePerId(remote.groups) /\ OnePerId(seen.groups)
    /\ \A i \in DOMAIN mutations : Undoes(mutations[i])
    /\ \A i, j \in DOMAIN mutations :
           mutations[i].group.name = mutations[j].group.name => i = j
    /\ FewRefs(remote) /\ FewRefs(seen)

(* While groups are written: what is still to come is there if it was read, *)
(* and what was written is there.                                          *)
WritingInv ==
    pc = "groups" =>
        /\ \A n \in todo : Named(seen, n) = {} <=> Named(remote, n) = {}
        /\ \A i \in DOMAIN mutations :
               /\ mutations[i].group.name \notin todo
               /\ Named(remote, mutations[i].group.name) # {}
        /\ remote.route.refs = seen.route.refs

TypeInv == TypeOK /\ PlaceInv /\ ObjectInv /\ WritingInv

(* What the mutations have made of the groups that were read.              *)
After(m) == [m.group EXCEPT !.dest = wanted.chunks[m.group.name]]
GroupsWith(M) ==
    {h \in seen.groups : \A m \in M : h.id # m.group.id} \cup {After(m) : m \in M}

(* Nobody but the run changed the controller, and it knows what it did.    *)
Alone == misled = FALSE /\ edited = FALSE /\ unseen = FALSE

(* The controller during a run that is alone.                              *)
EffectInv ==
    Alone =>
        /\ pc = "disable" => remote = seen
        /\ pc = "checkDisabled" => ~remote.route.enabled
        /\ pc \in {"groups", "route", "findRoute", "verify", "undoRoute", "undoGroups"}
           => remote.groups = GroupsWith(Range(mutations))
        /\ pc \in {"groups", "route", "undoGroups"} => remote.route = seen.route
        /\ pc \in {"findRoute", "verify"} => remote.route = DesiredRoute

(* A group that is wanted is there, was written, or is still to write.     *)
CoverInv ==
    pc \in {"groups", "route"} =>
        \A n \in DesiredNames :
            \/ n \in todo
            \/ \E m \in Range(mutations) : m.group.name = n
            \/ \E g \in seen.groups : g.name = n /\ g.dest = wanted.chunks[n]

(* What was verified stays while the rest is deleted.                      *)
VerifiedInv ==
    pc = "cleanup" /\ edited = FALSE =>
        /\ remote.route = DesiredRoute
        /\ Destinations(remote, remote.route.refs) = Range(wanted.chunks)

(* The run has not lost sight of a route that it has still to make.        *)
SightInv == pc \in {"groups", "route", "findRoute"} => unseen = FALSE

RunInv == TypeInv /\ EffectInv /\ CoverInv /\ VerifiedInv /\ SightInv

-----------------------------------------------------------------------------
(* Sequences, minima and numbers of ids *)

(* zip(desired_group_names, ...): there is a next name while any is left.  *)
LEMMA NextName ==
    ASSUME NEW S, S \subseteq Nat, S # {}
    PROVE  Min(S) \in S
<1> DEFINE R == {ss \in Nat \X Nat : ss[1] < ss[2]}
<1>1. IsWellFoundedOn(R, Nat)
  BY NatLessThanWellFounded DEF OpToRel
<1> HIDE DEF R
<1>2. PICK x \in S : \A y \in S : <<y, x>> \notin R
  BY <1>1, WFMin
<1>3. \A y \in S : x <= y
  <2>1. \A i, j \in Nat : i < j => <<i, j>> \in R
    BY DEF R
  <2>2. \A i, j \in Nat : ~(i < j) => j <= i
    OBVIOUS
  <2> QED BY <1>2, <2>1, <2>2
<1> QED BY <1>3 DEF Min

(* What Append, Front and Last do to a list of mutations.                  *)
LEMMA AppendFacts ==
    ASSUME NEW S, NEW s \in Seq(S), NEW x \in S
    PROVE  /\ Append(s, x) \in Seq(S) /\ Append(s, x) # <<>>
           /\ DOMAIN Append(s, x) = DOMAIN s \cup {Len(s) + 1}
           /\ \A i \in DOMAIN s : Append(s, x)[i] = s[i] /\ i # Len(s) + 1
           /\ Append(s, x)[Len(s) + 1] = x
           /\ Range(Append(s, x)) = Range(s) \cup {x}
<1>1. /\ Append(s, x) \in Seq(S) /\ Append(s, x) # <<>>
      /\ DOMAIN s = 1 .. Len(s) /\ Len(s) \in Nat
      /\ DOMAIN Append(s, x) = 1 .. (Len(s) + 1)
  OBVIOUS
<1>2. DOMAIN Append(s, x) = DOMAIN s \cup {Len(s) + 1}
  <2>1. \A n \in Nat : 1 .. (n + 1) = (1 .. n) \cup {n + 1}
    OBVIOUS
  <2> QED BY <1>1, <2>1
<1>3. /\ \A i \in DOMAIN s : Append(s, x)[i] = s[i] /\ i # Len(s) + 1
      /\ Append(s, x)[Len(s) + 1] = x
  OBVIOUS
<1>4. Range(Append(s, x)) = Range(s) \cup {x}
  BY <1>2, <1>3 DEF Range
<1> QED BY <1>1, <1>2, <1>3, <1>4

LEMMA FrontFacts ==
    ASSUME NEW S, NEW s \in Seq(S), s # <<>>
    PROVE  /\ Front(s) \in Seq(S) /\ DOMAIN Front(s) \subseteq DOMAIN s
           /\ Len(Front(s)) = Len(s) - 1 /\ Len(s) \in Nat \ {0}
           /\ DOMAIN s = DOMAIN Front(s) \cup {Len(s)}
           /\ \A i \in DOMAIN Front(s) : Front(s)[i] = s[i] /\ i # Len(s)
           /\ Last(s) \in S /\ Last(s) = s[Len(s)] /\ Len(s) \in DOMAIN s
           /\ Range(s) = Range(Front(s)) \cup {Last(s)}
<1>1. Len(s) \in Nat \ {0} /\ DOMAIN s = 1 .. Len(s)
  OBVIOUS
<1>2. /\ Front(s) \in Seq(S) /\ Len(Front(s)) = Len(s) - 1
      /\ DOMAIN Front(s) = 1 .. (Len(s) - 1)
      /\ \A i \in 1 .. (Len(s) - 1) : Front(s)[i] = s[i]
  BY <1>1 DEF Front
<1>3. DOMAIN s = DOMAIN Front(s) \cup {Len(s)} /\ \A i \in DOMAIN Front(s) : i # Len(s)
  <2>1. \A n \in Nat \ {0} : /\ 1 .. n = (1 .. (n - 1)) \cup {n}
                             /\ \A i \in 1 .. (n - 1) : i # n
    OBVIOUS
  <2> QED BY <1>1, <1>2, <2>1
<1>4. Last(s) = s[Len(s)] /\ Last(s) \in S /\ Len(s) \in DOMAIN s
  BY <1>1 DEF Last
<1>5. Range(s) = Range(Front(s)) \cup {Last(s)}
  BY <1>2, <1>3, <1>4 DEF Range
<1> QED BY <1>1, <1>2, <1>3, <1>4, <1>5

(* Groups whose names tell their ids apart have no more ids than names.    *)
LEMMA FewIds ==
    ASSUME NEW G, NEW N, IsFiniteSet(N), \A g \in G : g.name \in N,
           \A g, h \in G : g.name = h.name => g.id = h.id
    PROVE  LET ids == {g.id : g \in G}
           IN  IsFiniteSet(ids) /\ Cardinality(ids) <= Cardinality(N)
<1> DEFINE ids == {g.id : g \in G}
           Of(i) == CHOOSE g \in G : g.id = i
           f == [i \in ids |-> Of(i).name]
<1>1. \A i \in ids : Of(i) \in G /\ Of(i).id = i
  OBVIOUS
<1>2. f \in [ids -> N]
  BY <1>1
<1>3. \A i, j \in ids : f[i] = f[j] => i = j
  BY <1>1
<1>4. f \in Injection(ids, N)
  BY <1>2, <1>3 DEF Injection, IsInjective
<1> QED BY <1>4, FS_Injection

LEMMA NamesCounted ==
    /\ IsFiniteSet(Name) /\ Cardinality(Name) = MaxGroups
    /\ \A n \in Name : /\ IsFiniteSet(Name \ {n})
                       /\ Cardinality(Name \ {n}) = MaxGroups - 1
<1>1. IsFiniteSet(Name) /\ Cardinality(Name) = MaxGroups
  <2>1. 1 \in Int /\ MaxGroups \in Int /\ MaxGroups \in Nat
    BY BoundsAssumption
  <2>2. Cardinality(1 .. MaxGroups) = IF 1 > MaxGroups THEN 0 ELSE MaxGroups - 1 + 1
    BY <2>1, FS_Interval
  <2>3. IsFiniteSet(1 .. MaxGroups)
    BY <2>1, FS_Interval
  <2> QED BY <2>1, <2>2, <2>3 DEF Name
<1>2. ASSUME NEW n \in Name
      PROVE  IsFiniteSet(Name \ {n}) /\ Cardinality(Name \ {n}) = MaxGroups - 1
  BY <1>1, FS_RemoveElement
<1> QED BY <1>1, <1>2

-----------------------------------------------------------------------------
(* Ids and names *)

LEMMA Wanted ==
    ASSUME TypeOK
    PROVE  /\ DesiredNames \subseteq Name /\ wanted.chunks \in Lists
           /\ \A n \in DesiredNames : wanted.chunks[n] \in Chunks
           /\ Range(wanted.chunks) = {wanted.chunks[n] : n \in DesiredNames}
<1>1. wanted.chunks \in Lists /\ wanted.chunks \in Seq(Chunks)
      /\ Len(wanted.chunks) <= MaxGroups /\ MaxGroups \in Nat
  BY ListsAssumption, BoundsAssumption DEF TypeOK
<1>2. DOMAIN wanted.chunks = 1 .. Len(wanted.chunks) /\ Len(wanted.chunks) \in Nat
  BY <1>1
<1>3. DesiredNames \subseteq Name
  BY <1>1, <1>2 DEF DesiredNames, Name
<1>4. \A n \in DesiredNames : wanted.chunks[n] \in Chunks
  BY <1>1, <1>2 DEF DesiredNames
<1> QED BY <1>1, <1>3, <1>4 DEF Range, DesiredNames

LEMMA KnownTypes ==
    ASSUME TypeOK
    PROVE  /\ Known \subseteq Group /\ Mutated \subseteq Group
           /\ seen.groups \subseteq Group /\ remote.groups \subseteq Group
           /\ \A i \in DOMAIN mutations : mutations[i] \in Mutation
           /\ Mutated = {mutations[i].group : i \in DOMAIN mutations}
<1>1. seen.groups \subseteq Group /\ remote.groups \subseteq Group
  BY DEF TypeOK, Controller
<1>2. \A i \in DOMAIN mutations : mutations[i] \in Mutation
  BY DEF TypeOK
<1>3. Mutated = {mutations[i].group : i \in DOMAIN mutations}
  BY DEF Mutated, Range
<1>4. Mutated \subseteq Group
  BY <1>2, <1>3 DEF Mutation
<1> QED BY <1>1, <1>2, <1>3, <1>4 DEF Known

(* final_destination_ids are ids of groups with the names that are wanted. *)
LEMMA FinalGroups ==
    ASSUME TypeInv
    PROVE  /\ \A i \in FinalIds : \E g \in Known : g.id = i /\ g.name \in DesiredNames
           /\ FinalIds \subseteq GroupIds
           /\ DesiredRoute \in Route
           /\ IsFiniteSet(FinalIds) /\ Cardinality(FinalIds) <= MaxGroups
<1> DEFINE G == {g \in Known : g.id \in FinalIds /\ g.name \in DesiredNames}
<1>1. \A m \in Range(mutations) : m.group \in Known /\ m.group.name \in DesiredNames
  BY DEF Known, Mutated, TypeInv, ObjectInv, Undoes, Range
<1>2. \A i \in FinalIds : \E g \in Known : g.id = i /\ g.name \in DesiredNames
  BY <1>1 DEF FinalIds, Known
<1>3. Known \subseteq Group /\ DesiredNames \subseteq Name
  BY KnownTypes, Wanted DEF TypeInv
<1>4. FinalIds \subseteq GroupIds
  BY <1>2, <1>3 DEF Group
<1>5. FinalIds = {g.id : g \in G}
  BY <1>2
<1>6. /\ \A g \in G : g.name \in Name
      /\ \A g, h \in G : g.name = h.name => g.id = h.id
  BY <1>3 DEF TypeInv, ObjectInv, Consistent
<1>7. IsFiniteSet({g.id : g \in G}) /\ Cardinality({g.id : g \in G}) <= Cardinality(Name)
  <2> HIDE DEF G
  <2> QED BY <1>6, NamesCounted, FewIds
<1>8. DesiredRoute \in Route
  BY <1>4 DEF DesiredRoute, Route, TypeInv, TypeOK
<1> QED BY <1>2, <1>4, <1>5, <1>7, <1>8, NamesCounted

LEMMA NextIsWanted ==
    ASSUME TypeInv, todo # {}
    PROVE  Min(todo) \in todo /\ Min(todo) \in DesiredNames /\ Min(todo) \in Name
<1>1. Name \subseteq Nat
  BY DEF Name
<1> QED BY <1>1, NextName, Wanted DEF TypeInv, TypeOK, PlaceInv

(* create_group gives an id that nothing else has, and there is one left:  *)
(* the other groups that are known, and the routes, have fewer.            *)
LEMMA FreshId ==
    ASSUME TypeInv, pc = "groups", todo # {}, Named(seen, Min(todo)) = {}
    PROVE  /\ NewId \in GroupIds
           /\ \A g \in Known : g.id # NewId /\ g.name # Min(todo)
<1> DEFINE n == Min(todo)
           G == remote.groups \cup seen.groups
           ids == {g.id : g \in G}
           used == ids \cup (remote.route.refs \cup seen.route.refs)
<1>1. n \in todo /\ n \in Name
  BY NextIsWanted
<1>2. /\ Consistent(Known) /\ G \subseteq Known /\ G \subseteq Group
      /\ \A m \in Mutated : m.name \notin todo /\ Named(remote, m.name) # {}
  BY KnownTypes DEF TypeInv, ObjectInv, WritingInv, Known
<1>3. \A g \in G : g.name # n
  BY <1>1 DEF TypeInv, WritingInv, Named
<1>4. \A g \in G : g.name \in Name \ {n}
  BY <1>2, <1>3 DEF Group
<1>5. \A g, h \in G : g.name = h.name => g.id = h.id
  BY <1>2 DEF Consistent
<1>6. IsFiniteSet(ids) /\ Cardinality(ids) <= MaxGroups - 1
  <2>1. IsFiniteSet(Name \ {n}) /\ Cardinality(Name \ {n}) = MaxGroups - 1
    BY <1>1, NamesCounted
  <2> HIDE DEF G, n
  <2>2. IsFiniteSet(ids) /\ Cardinality(ids) <= Cardinality(Name \ {n})
    BY <1>4, <1>5, <2>1, FewIds
  <2> QED BY <2>1, <2>2
<1>7. /\ remote.route.refs = seen.route.refs /\ IsFiniteSet(seen.route.refs)
      /\ Cardinality(seen.route.refs) <= MaxGroups
  BY DEF TypeInv, ObjectInv, WritingInv, FewRefs
<1>8. IsFiniteSet(used) /\ Cardinality(used) < 2 * MaxGroups
  <2> DEFINE refs == seen.route.refs
  <2>1. used = ids \cup refs
    BY <1>7
  <2> HIDE DEF ids, used, refs
  <2>2. IsFiniteSet(ids) /\ IsFiniteSet(refs)
    BY <1>6, <1>7 DEF refs
  <2>3. /\ IsFiniteSet(ids \cup refs)
        /\ Cardinality(ids \cup refs)
           = Cardinality(ids) + Cardinality(refs) - Cardinality(ids \cap refs)
    BY <2>2, FS_Union
  <2>4. IsFiniteSet(ids \cap refs)
    BY <2>2, FS_Intersection
  <2>5. /\ Cardinality(ids) \in Nat /\ Cardinality(refs) \in Nat
        /\ Cardinality(ids \cap refs) \in Nat
    BY <2>2, <2>4, FS_CardinalityType
  <2>6. \A a, b, c, m \in Nat : a <= m - 1 /\ b <= m => a + b - c < 2 * m
    OBVIOUS
  <2>7. Cardinality(ids \cup refs) < 2 * MaxGroups
    BY <1>6, <1>7, <2>3, <2>5, <2>6, BoundsAssumption DEF refs
  <2> QED BY <2>1, <2>3, <2>7
<1>9. \E i \in GroupIds : i \notin used
  <2> SUFFICES ASSUME GroupIds \subseteq used PROVE FALSE
    OBVIOUS
  <2> HIDE DEF used
  <2>1. IsFiniteSet(GroupIds) /\ Cardinality(GroupIds) <= Cardinality(used)
    BY <1>8, FS_Subset
  <2>2. Cardinality(GroupIds) \in Nat /\ Cardinality(used) \in Nat
    BY <1>8, <2>1, FS_CardinalityType
  <2>3. \A a, b, m \in Nat : a <= b /\ b < 2 * m => ~(a >= 2 * m)
    OBVIOUS
  <2> QED BY <1>8, <2>1, <2>2, <2>3, GroupIdsAssumption, BoundsAssumption
<1>10. /\ NewId \in GroupIds /\ NewId \notin remote.route.refs \cup seen.route.refs
       /\ \A g \in G : g.id # NewId
  BY <1>9 DEF NewId
<1>11. \A m \in Mutated : m.id # NewId /\ m.name # n
  <2> SUFFICES ASSUME NEW m \in Mutated PROVE m.id # NewId /\ m.name # n
    OBVIOUS
  <2>1. PICK g \in remote.groups : g.name = m.name
    BY <1>2 DEF Named
  <2>2. g.id = m.id
    BY <1>2, <2>1 DEF Known, Consistent
  <2> QED BY <1>1, <1>2, <1>10, <2>1, <2>2
<1> QED BY <1>3, <1>10, <1>11 DEF Known

-----------------------------------------------------------------------------
(* What a request may make of the controller *)

(* State r of the controller goes with the groups that the run knows.      *)
Sound(r) ==
    /\ r \in Controller
    /\ Consistent(Known \cup r.groups) /\ OnePerId(r.groups)
    /\ FewRefs(r)

LEMMA SoundRemote == ASSUME TypeInv PROVE Sound(remote)
<1>1. Known \cup remote.groups = Known
  BY DEF Known
<1> QED BY <1>1 DEF Sound, TypeInv, TypeOK, ObjectInv

LEMMA SoundRoute ==
    ASSUME TypeInv, NEW r \in Route,
           IsFiniteSet(r.refs), Cardinality(r.refs) <= MaxGroups
    PROVE  Sound(SetRoute(r))
<1>1. SetRoute(r).groups = remote.groups /\ SetRoute(r).route = r
      /\ SetRoute(r) \in Controller
  BY DEF SetRoute, TypeInv, TypeOK, Controller
<1>2. Known \cup remote.groups = Known
  BY DEF Known
<1> QED BY <1>1, <1>2 DEF Sound, TypeInv, ObjectInv, FewRefs

(* Another group with its id gives way to g.                               *)
LEMMA SoundGroup ==
    ASSUME TypeInv, NEW g \in Group, Consistent(Known \cup {g})
    PROVE  Sound(SetGroup(g))
<1> DEFINE G == {h \in remote.groups : h.id # g.id} \cup {g}
<1>1. SetGroup(g).groups = G /\ SetGroup(g).route = remote.route /\ SetGroup(g) \in Controller
  BY DEF SetGroup, TypeInv, TypeOK, Controller
<1>2. Known \cup G = Known \cup {g}
  BY DEF Known
<1>3. OnePerId(G)
  BY DEF TypeInv, ObjectInv, OnePerId
<1>4. FewRefs(SetGroup(g))
  BY <1>1 DEF TypeInv, ObjectInv, FewRefs
<1> QED BY <1>1, <1>2, <1>3, <1>4 DEF Sound

LEMMA SoundKnown ==
    ASSUME TypeInv, NEW g \in Known
    PROVE  Sound(SetGroup(g))
<1>1. Known \cup {g} = Known /\ g \in Group
  BY KnownTypes DEF TypeInv
<1> QED BY <1>1, SoundGroup DEF TypeInv, ObjectInv

LEMMA SoundDeletion ==
    ASSUME TypeInv, NEW id
    PROVE  Sound(DeleteGroup(id))
<1> DEFINE G == {h \in remote.groups : h.id # id}
<1>1. DeleteGroup(id).groups = G /\ DeleteGroup(id).route = remote.route
      /\ DeleteGroup(id) \in Controller
  BY DEF DeleteGroup, TypeInv, TypeOK, Controller
<1>2. Known \cup G = Known
  BY DEF Known
<1>3. OnePerId(G) /\ FewRefs(DeleteGroup(id))
  BY <1>1 DEF TypeInv, ObjectInv, OnePerId, FewRefs
<1> QED BY <1>1, <1>2, <1>3 DEF Sound, TypeInv, ObjectInv

(* The group that is written next, and what undoes it.                     *)
LEMMA NextFacts ==
    ASSUME TypeInv, pc = "groups", todo # {}
    PROVE  LET g == NextGroup
               u == Undo(NextGroup)
           IN  /\ g \in Group /\ g.name = Min(todo)
               /\ u \in Mutation /\ u.group.id = g.id /\ u.group.name = g.name
               /\ Undoes(u) /\ After(u) = g
               /\ u.group = g \/ u.group \in seen.groups
               /\ Consistent(Known \cup {g})
               /\ \A m \in Mutated : m.name # g.name
<1> DEFINE n == Min(todo)
           g == NextGroup
           u == Undo(NextGroup)
<1>1. /\ n \in todo /\ n \in DesiredNames /\ n \in Name
      /\ wanted.chunks[n] \in Chunks
  BY NextIsWanted, Wanted DEF TypeInv
<1>2. \A m \in Mutated : m.name # n
  BY <1>1, KnownTypes DEF TypeInv, WritingInv
<1>3. CASE Named(seen, n) = {}
  <2>1. g = [id |-> NewId, name |-> n, dest |-> wanted.chunks[n]]
    BY <1>3 DEF NextGroup
  <2>2. NewId \in GroupIds /\ \A h \in Known : h.id # NewId /\ h.name # n
    BY <1>3, <1>1, FreshId
  <2>3. g \in Group /\ g.id = NewId /\ g.name = n /\ g.dest = wanted.chunks[n]
    BY <1>1, <2>1, <2>2 DEF Group
  <2>4. u = [action |-> "delete", group |-> g]
    BY <1>3, <2>3 DEF Undo
  <2>5. u \in Mutation /\ u.action = "delete" /\ u.group = g
    BY <2>3, <2>4 DEF Mutation
  <2>6. Undoes(u)
    BY <1>1, <1>3, <2>3, <2>5 DEF Undoes
  <2>7. After(u) = g
    BY <2>1, <2>5 DEF After
  <2>8. Consistent(Known \cup {g})
    BY <2>2, <2>3 DEF Consistent, TypeInv, ObjectInv
  <2> QED BY <1>2, <2>3, <2>5, <2>6, <2>7, <2>8
<1>4. CASE Named(seen, n) # {}
  <2> DEFINE h == CHOOSE x \in Named(seen, n) : TRUE
  <2>1. h \in seen.groups /\ h.name = n
    BY <1>4 DEF Named
  <2>2. h \in Group /\ h \in Known
    BY <2>1, KnownTypes DEF TypeInv, Known
  <2>3. g = [h EXCEPT !.dest = wanted.chunks[n]]
    BY <1>4 DEF NextGroup
  <2> HIDE DEF h
  <2>4. g \in Group /\ g.id = h.id /\ g.name = n /\ g.dest = wanted.chunks[n]
    BY <1>1, <2>1, <2>2, <2>3 DEF Group
  <2>5. u = [action |-> "restore", group |-> h]
    BY <1>4, <2>4 DEF Undo, h
  <2>6. u \in Mutation /\ u.action = "restore" /\ u.group = h
    BY <2>2, <2>5 DEF Mutation
  <2>7. Undoes(u)
    BY <1>1, <2>1, <2>6 DEF Undoes
  <2>8. After(u) = g
    BY <2>1, <2>3, <2>6 DEF After
  <2>9. Consistent(Known \cup {g})
    BY <2>1, <2>2, <2>4 DEF Consistent, TypeInv, ObjectInv
  <2> QED BY <1>2, <2>1, <2>4, <2>6, <2>7, <2>8, <2>9
<1> QED BY <1>3, <1>4

LEMMA SoundDisabling ==
    ASSUME TypeInv
    PROVE  Sound(SetRoute([seen.route EXCEPT !.enabled = FALSE]))
<1> DEFINE r == [seen.route EXCEPT !.enabled = FALSE]
<1>1. r \in Route /\ r.refs = seen.route.refs
  BY DEF TypeInv, TypeOK, Controller, Route
<1> QED BY <1>1, SoundRoute DEF TypeInv, ObjectInv, FewRefs

LEMMA SoundEffect == ASSUME TypeInv PROVE Sound(Effect)
<1>1. CASE pc = "groups" /\ todo # {}
  BY <1>1, NextFacts, SoundGroup DEF Effect
<1>2. CASE pc = "route"
  <2>1. DesiredRoute \in Route /\ DesiredRoute.refs = FinalIds
    BY FinalGroups DEF DesiredRoute
  <2> QED BY <1>2, <2>1, FinalGroups, SoundRoute DEF Effect
<1>3. CASE pc = "disable"
  BY <1>3, SoundDisabling DEF Effect
<1>4. CASE ~(pc = "groups" /\ todo # {}) /\ pc \notin {"route", "disable"}
  BY <1>4, SoundRemote DEF Effect
<1> QED BY <1>1, <1>2, <1>3, <1>4

LEMMA SoundUndo ==
    ASSUME TypeInv, pc \in {"undoRoute", "undoGroups"}
    PROVE  Sound(UndoStep)
<1>1. CASE pc = "undoRoute"
  <2>1. seen.route \in Route
    BY DEF TypeInv, TypeOK, Controller
  <2> QED BY <1>1, <2>1, SoundRoute DEF UndoStep, TypeInv, ObjectInv, FewRefs
<1>2. CASE pc = "undoGroups"
  <2>1. mutations \in Seq(Mutation) /\ mutations # <<>>
    BY <1>2 DEF TypeInv, TypeOK, PlaceInv
  <2>2. Last(mutations) = mutations[Len(mutations)] /\ Len(mutations) \in DOMAIN mutations
    BY <2>1, FrontFacts
  <2>3. Last(mutations).group \in Known
    BY <2>2, KnownTypes DEF TypeInv, Known
  <2> QED BY <1>2, <2>3, SoundKnown, SoundDeletion DEF UndoStep, UndoMutation
<1> QED BY <1>1, <1>2

(* The request that disables a route keeps the rest of it.                 *)
LEMMA SoundEdit ==
    ASSUME TypeInv, UserEdits
    PROVE  Sound(remote') /\ remote'.route.refs = remote.route.refs
           /\ \A n : Named(remote', n) = {} <=> Named(remote, n) = {}
<1>1. CASE remote' = [remote EXCEPT !.route.enabled = ~@]
  <2> DEFINE r == [remote.route EXCEPT !.enabled = ~@]
  <2>1. r \in Route /\ r.refs = remote.route.refs
    BY DEF TypeInv, TypeOK, Controller, Route
  <2>2. remote' = SetRoute(r) /\ remote'.groups = remote.groups
    BY <1>1 DEF SetRoute, TypeInv, TypeOK, Controller
  <2>3. remote'.route = r
    BY <2>2 DEF SetRoute, TypeInv, TypeOK, Controller
  <2> QED BY <2>1, <2>2, <2>3, SoundRoute DEF TypeInv, ObjectInv, FewRefs, Named
<1>2. ASSUME NEW g \in remote.groups, NEW d \in Chunks,
             remote' = SetGroup([g EXCEPT !.dest = d])
      PROVE  Sound(remote') /\ remote'.route.refs = remote.route.refs
             /\ \A n : Named(remote', n) = {} <=> Named(remote, n) = {}
  <2> DEFINE e == [g EXCEPT !.dest = d]
  <2>1. e \in Group /\ e.id = g.id /\ e.name = g.name /\ g \in Known
    BY KnownTypes DEF TypeInv, Group, Known
  <2>2. Consistent(Known \cup {e})
    <3>1. Consistent(Known)
      BY DEF TypeInv, ObjectInv
    <3> HIDE DEF e
    <3> QED BY <2>1, <3>1 DEF Consistent
  <2>3. remote'.route = remote.route
        /\ remote'.groups = {h \in remote.groups : h.id # e.id} \cup {e}
    BY <1>2 DEF SetGroup, TypeInv, TypeOK, Controller
  <2>4. ASSUME NEW n PROVE Named(remote', n) = {} <=> Named(remote, n) = {}
    <3>1. \A h \in remote.groups : h.id = e.id => h = g
      BY <2>1 DEF TypeInv, ObjectInv, OnePerId
    <3> QED BY <2>1, <2>3, <3>1 DEF Named
  <2> QED BY <1>2, <2>1, <2>2, <2>3, <2>4, SoundGroup
<1> QED BY <1>1, <1>2 DEF UserEdits

-----------------------------------------------------------------------------
(* The types *)

LEMMA Counted ==
    ASSUME TypeOK, NEW k \in {"request", "edit", "crash"}, NEW bound, Fault(k, bound)
    PROVE  faults' \in [{"request", "edit", "crash"} -> Nat]
BY DEF TypeOK, Fault

LEMMA Requested ==
    ASSUME TypeOK, NEW after, NEW reported \in BOOLEAN, Request(after, reported)
    PROVE  /\ remote' = remote \/ remote' = after
           /\ misled' \in BOOLEAN
           /\ faults' \in [{"request", "edit", "crash"} -> Nat]
           /\ misled' = misled \/ misled' = TRUE
           /\ misled' = FALSE => remote' = IF reported THEN after ELSE remote
<1>1. CASE reported = TRUE
  BY <1>1, Counted DEF Request, TypeOK
<1>2. CASE reported = FALSE
  BY <1>2, Counted DEF Request, TypeOK
<1> QED BY <1>1, <1>2

LEMMA SameDesires ==
    ASSUME UNCHANGED <<wanted, seen>>
    PROVE  /\ DesiredNames' = DesiredNames
           /\ ExtraGroups(seen)' = ExtraGroups(seen)
           /\ mutations' = mutations =>
                  FinalIds' = FinalIds /\ DesiredRoute' = DesiredRoute
<1>1. DesiredNames' = DesiredNames
  BY DEF DesiredNames
<1>2. ExtraGroups(seen)' = ExtraGroups(seen)
  BY <1>1 DEF ExtraGroups
<1>3. ASSUME mutations' = mutations PROVE FinalIds' = FinalIds
  BY <1>1, <1>3 DEF FinalIds
<1> QED BY <1>1, <1>2, <1>3 DEF DesiredRoute

(* Mutations are kept, dropped, or undone from the last one.               *)
Shortened ==
    \/ mutations' = mutations
    \/ mutations' = <<>>
    \/ mutations # <<>> /\ mutations' = Front(mutations)

LEMMA ObjectsKept ==
    ASSUME TypeInv, UNCHANGED <<wanted, seen>>, Sound(remote'), Shortened
    PROVE  ObjectInv' /\ mutations' \in Seq(Mutation)
<1>1. /\ mutations' \in Seq(Mutation) /\ DOMAIN mutations' \subseteq DOMAIN mutations
      /\ \A i \in DOMAIN mutations' : mutations'[i] = mutations[i]
  <2>0. mutations \in Seq(Mutation)
    BY DEF TypeInv, TypeOK
  <2>1. CASE mutations' = mutations
    BY <2>0, <2>1
  <2>2. CASE mutations' = <<>>
    BY <2>2
  <2>3. CASE mutations # <<>> /\ mutations' = Front(mutations)
    BY <2>0, <2>3, FrontFacts
  <2> QED BY <2>1, <2>2, <2>3 DEF Shortened
<1>2. Mutated' \subseteq Mutated
  BY <1>1 DEF Mutated, Range
<1>3. Known' \subseteq Known \cup remote'.groups
  BY <1>2 DEF Known
<1>4. Consistent(Known)' /\ OnePerId(remote.groups)' /\ OnePerId(seen.groups)'
  BY <1>3 DEF Sound, Consistent, OnePerId, TypeInv, ObjectInv
<1>5. \A i \in DOMAIN mutations' : Undoes(mutations[i])'
  <2> SUFFICES ASSUME NEW i \in DOMAIN mutations' PROVE Undoes(mutations[i])'
    OBVIOUS
  <2>1. i \in DOMAIN mutations /\ mutations'[i] = mutations[i] /\ Undoes(mutations[i])
    BY <1>1 DEF TypeInv, ObjectInv
  <2>2. DesiredNames' = DesiredNames /\ wanted' = wanted /\ seen' = seen
    BY SameDesires
  <2> QED BY <2>1, <2>2 DEF Undoes, Named
<1>6. \A i, j \in DOMAIN mutations' :
          mutations'[i].group.name = mutations'[j].group.name => i = j
  BY <1>1 DEF TypeInv, ObjectInv
<1>7. FewRefs(remote)' /\ FewRefs(seen)'
  BY DEF Sound, FewRefs, TypeInv, ObjectInv
<1> QED BY <1>1, <1>4, <1>5, <1>6, <1>7 DEF ObjectInv

(* A run that goes on, or ends, but in writing groups.                     *)
LEMMA StepWithin ==
    ASSUME TypeInv, UNCHANGED <<wanted, seen>>, Sound(remote'), Shortened,
           PlaceInv', pc' # "groups", pc' \in {"idle", "disable", "checkDisabled",
               "route", "findRoute", "verify", "cleanup", "undoRoute", "undoGroups"},
           todo' \subseteq todo, extra' \subseteq extra,
           routeDone' \in {"none", "created", "changed"},
           outcome' \in {"none", "noop", "success", "dry_run", "error", "rolled_back",
                    "nothing_done", "partial", "crashed", "uncaught"},
           faults' \in [{"request", "edit", "crash"} -> Nat],
           misled' \in BOOLEAN, edited' \in BOOLEAN, unseen' \in BOOLEAN
    PROVE  TypeInv'
<1>1. ObjectInv' /\ mutations' \in Seq(Mutation)
  BY ObjectsKept
<1>2. TypeOK'
  BY <1>1 DEF Sound, TypeInv, TypeOK
<1>3. WritingInv'
  BY DEF WritingInv
<1> QED BY <1>1, <1>2, <1>3 DEF TypeInv

(* Outcomes that a step may end a run with.                                *)
Ends == {"noop", "success", "error", "rolled_back", "nothing_done", "partial",
         "crashed", "uncaught"}

LEMMA RunEnds ==
    ASSUME TypeInv, UNCHANGED <<wanted, seen>>, Sound(remote'),
           NEW how \in Ends, Finish(how),
           faults' \in [{"request", "edit", "crash"} -> Nat],
           misled' \in BOOLEAN, edited' \in BOOLEAN, unseen' \in BOOLEAN
    PROVE  TypeInv'
<1>1. /\ pc' = "idle" /\ outcome' = how /\ todo' = {} /\ mutations' = <<>>
      /\ routeDone' = "none" /\ extra' = {}
  BY DEF Finish
<1>2. PlaceInv'
  BY <1>1 DEF PlaceInv
<1>3. Shortened
  BY <1>1 DEF Shortened
<1>4. outcome' \in {"none", "noop", "success", "dry_run", "error", "rolled_back",
                    "nothing_done", "partial", "crashed", "uncaught"}
  BY <1>1 DEF Ends
<1> QED BY <1>1, <1>2, <1>3, <1>4, StepWithin

(* Rollback: the run ends, or goes on to undo what it has done.            *)
LEMMA RollbackBegins ==
    ASSUME TypeInv, UNCHANGED <<wanted, seen>>, Sound(remote'),
           pc \in {"groups", "route", "findRoute", "verify"}, Rollback,
           faults' \in [{"request", "edit", "crash"} -> Nat],
           misled' \in BOOLEAN, edited' \in BOOLEAN, unseen' \in BOOLEAN
    PROVE  TypeInv'
<1>1. CASE mutations = <<>> /\ routeDone = "none"
  <2>1. Finish("nothing_done")
    BY <1>1 DEF Rollback
  <2> QED BY <2>1, RunEnds DEF Ends
<1>2. CASE ~(mutations = <<>> /\ routeDone = "none")
  <2>1. /\ UNCHANGED <<outcome, todo, mutations, routeDone, extra>>
        /\ pc' = IF routeDone = "none" THEN "undoGroups" ELSE "undoRoute"
    BY <1>2 DEF Rollback, Goto, locals
  <2>2. PlaceInv'
    BY <1>2, <2>1, SameDesires DEF PlaceInv, TypeInv
  <2> QED BY <2>1, <2>2, StepWithin DEF Shortened, TypeInv, TypeOK
<1> QED BY <1>1, <1>2

(* A new run, or a new state to start from.                                *)
LEMMA StepBetween ==
    ASSUME TypeInv, pc = "idle", seen' = remote', remote' \in Controller,
           Consistent(remote'.groups), OnePerId(remote'.groups), FewRefs(remote'),
           mutations' = <<>>
    PROVE  ObjectInv'
<1>1. Known' = remote'.groups
  BY DEF Known, Mutated, Range
<1> QED BY <1>1 DEF ObjectInv, Consistent, OnePerId, FewRefs

LEMMA RemoteFacts ==
    ASSUME TypeInv
    PROVE  /\ remote \in Controller /\ seen \in Controller
           /\ Consistent(remote.groups) /\ OnePerId(remote.groups) /\ FewRefs(remote)
           /\ Consistent(seen.groups) /\ OnePerId(seen.groups) /\ FewRefs(seen)
BY DEF TypeInv, TypeOK, ObjectInv, Known, Consistent

LEMMA TypeInit == ASSUME Init PROVE TypeInv
<1>1. remote = [groups |-> {}, route |-> NoRoute] /\ seen = remote
      /\ mutations = <<>>
  BY DEF Init
<1>2. remote \in Controller
  BY <1>1 DEF Controller, NoRoute, Route
<1>3. TypeOK
  <2>1. faults \in [{"request", "edit", "crash"} -> Nat] /\ mutations \in Seq(Mutation)
    BY DEF Init
  <2>2. /\ todo \subseteq Name /\ extra \subseteq GroupIds
        /\ wanted \in [enabled : BOOLEAN, chunks : Lists]
        /\ pc = "idle" /\ outcome = "none" /\ routeDone = "none"
        /\ misled = FALSE /\ edited = FALSE /\ unseen = FALSE
    BY DEF Init
  <2> QED BY <1>1, <1>2, <2>1, <2>2 DEF TypeOK
<1>4. FewRefs(remote) /\ FewRefs(seen)
  BY <1>1, FS_EmptySet, BoundsAssumption DEF FewRefs, NoRoute
<1>5. ObjectInv
  BY <1>1, <1>4 DEF ObjectInv, Known, Mutated, Range, Consistent, OnePerId
<1>6. PlaceInv /\ WritingInv
  BY DEF Init, PlaceInv, WritingInv
<1> QED BY <1>3, <1>5, <1>6 DEF TypeInv

LEMMA TypeStart == ASSUME TypeInv, Start PROVE TypeInv'
<1>1. /\ pc = "idle" /\ seen' = remote /\ remote' = remote /\ wanted' = wanted
      /\ misled' = FALSE /\ unseen' = FALSE /\ faults' = faults /\ edited' = edited
      /\ todo = {} /\ mutations = <<>> /\ routeDone = "none" /\ extra = {}
  BY DEF Start, TypeInv, PlaceInv
<1>2. \/ pc' = "disable" /\ outcome' = "none" /\ wanted.chunks = <<>> /\ UNCHANGED locals
      \/ Finish("noop")
      \/ /\ pc' = "groups" /\ outcome' = "none" /\ wanted.chunks # <<>>
         /\ todo' = GroupsToWrite(remote) /\ extra' = ExtraGroups(remote)
         /\ UNCHANGED <<mutations, routeDone>>
  BY DEF Start
<1>3. mutations' = <<>> /\ routeDone' = "none"
  BY <1>1, <1>2 DEF Finish, locals
<1>4. ObjectInv'
  BY <1>1, <1>3, RemoteFacts, StepBetween
<1>5. /\ DesiredNames' = DesiredNames /\ GroupsToWrite(remote) \subseteq DesiredNames
      /\ ExtraGroups(seen)' = ExtraGroups(remote)
  BY <1>1 DEF DesiredNames, GroupsToWrite, ExtraGroups
<1>6. ExtraGroups(remote) \subseteq GroupIds
  BY KnownTypes DEF TypeInv, ExtraGroups, Group
<1>7. CASE pc' = "disable" /\ outcome' = "none" /\ wanted.chunks = <<>> /\ UNCHANGED locals
  <2>1. PlaceInv' /\ WritingInv'
    BY <1>1, <1>7 DEF PlaceInv, WritingInv, locals
  <2> QED BY <1>1, <1>4, <1>7, <2>1 DEF TypeInv, TypeOK, locals
<1>8. CASE Finish("noop")
  <2>1. PlaceInv' /\ WritingInv'
    BY <1>8 DEF PlaceInv, WritingInv, Finish
  <2> QED BY <1>1, <1>3, <1>4, <1>8, <2>1 DEF TypeInv, TypeOK, Finish
<1>9. CASE /\ pc' = "groups" /\ outcome' = "none" /\ wanted.chunks # <<>>
           /\ todo' = GroupsToWrite(remote) /\ extra' = ExtraGroups(remote)
           /\ UNCHANGED <<mutations, routeDone>>
  <2>1. PlaceInv'
    BY <1>1, <1>5, <1>9 DEF PlaceInv
  <2>2. WritingInv'
    BY <1>1, <1>3, <1>9 DEF WritingInv, Named
  <2>3. TypeOK'
    BY <1>1, <1>5, <1>6, <1>9, Wanted DEF TypeInv, TypeOK
  <2> QED BY <1>4, <2>1, <2>2, <2>3 DEF TypeInv
<1> QED BY <1>2, <1>7, <1>8, <1>9

LEMMA TypeBetween ==
    ASSUME TypeInv, StartFails \/ DryRun \/ FeedChanges \/ OperatorRepairs
    PROVE  TypeInv'
<1>1. /\ pc = "idle" /\ pc' = "idle" /\ seen' = remote' /\ UNCHANGED locals
      /\ todo = {} /\ mutations = <<>> /\ routeDone = "none" /\ extra = {}
  BY DEF StartFails, DryRun, FeedChanges, OperatorRepairs, TypeInv, PlaceInv
<1>2. remote' \in {remote, seen, [groups |-> {}, route |-> NoRoute]}
  BY DEF StartFails, DryRun, FeedChanges, OperatorRepairs
<1>3. /\ remote' \in Controller /\ Consistent(remote'.groups)
      /\ OnePerId(remote'.groups) /\ FewRefs(remote')
  <2>1. CASE remote' \in {remote, seen}
    BY <2>1, RemoteFacts
  <2>2. CASE remote' = [groups |-> {}, route |-> NoRoute]
    <3>1. remote' \in Controller
      BY <2>2 DEF Controller, NoRoute, Route
    <3>2. FewRefs(remote')
      BY <2>2, FS_EmptySet, BoundsAssumption DEF FewRefs, NoRoute
    <3> QED BY <2>2, <3>1, <3>2 DEF Consistent, OnePerId
  <2> QED BY <1>2, <2>1, <2>2
<1>4. ObjectInv'
  BY <1>1, <1>3, StepBetween DEF locals
<1>5. PlaceInv' /\ WritingInv'
  BY <1>1 DEF PlaceInv, WritingInv, locals
<1>6. TypeOK'
  <2>1. wanted' \in [enabled : BOOLEAN, chunks : Lists]
    BY DEF StartFails, DryRun, FeedChanges, OperatorRepairs, TypeInv, TypeOK
  <2>2. faults' \in [{"request", "edit", "crash"} -> Nat]
    <3>1. \/ Fault("request", MaxFaults) \/ Fault("edit", MaxEdits) \/ faults' = faults
      BY DEF StartFails, DryRun, FeedChanges, OperatorRepairs
    <3> QED BY <3>1, Counted DEF TypeInv, TypeOK
  <2>3. /\ misled' \in BOOLEAN /\ edited' \in BOOLEAN /\ unseen' \in BOOLEAN
        /\ outcome' \in {"error", "uncaught", "dry_run", "none"}
    BY DEF StartFails, DryRun, FeedChanges, OperatorRepairs, history, TypeInv, TypeOK
  <2> QED BY <1>1, <1>3, <2>1, <2>2, <2>3 DEF TypeInv, TypeOK, locals
<1> QED BY <1>4, <1>5, <1>6 DEF TypeInv

LEMMA TypeDisable ==
    ASSUME TypeInv, DisableRoute \/ CheckDisabled \/ DisableFails
    PROVE  TypeInv'
<1>1. /\ pc \in {"disable", "checkDisabled"} /\ UNCHANGED <<wanted, seen, edited, unseen>>
      /\ edited' \in BOOLEAN /\ unseen' \in BOOLEAN
  BY DEF DisableRoute, CheckDisabled, DisableFails, history, TypeInv, TypeOK
<1>2. /\ Sound(remote') /\ misled' \in BOOLEAN
      /\ faults' \in [{"request", "edit", "crash"} -> Nat]
  <2> DEFINE after == SetRoute([seen.route EXCEPT !.enabled = FALSE])
  <2>1. CASE Request(after, TRUE) \/ Request(after, FALSE)
    BY <2>1, Requested, SoundRemote, SoundDisabling DEF TypeInv
  <2>2. CASE Fault("request", MaxFaults) /\ UNCHANGED <<remote, misled>>
    BY <2>2, Counted, SoundRemote DEF TypeInv, TypeOK
  <2>3. CASE UNCHANGED <<remote, faults, misled>>
    BY <2>3, SoundRemote DEF TypeInv, TypeOK
  <2> QED BY <2>1, <2>2, <2>3 DEF DisableRoute, CheckDisabled, DisableFails, history
<1>3. CASE DisableRoute
  <2>1. /\ pc = "disable" /\ pc' = "checkDisabled" /\ UNCHANGED <<outcome, locals>>
    BY <1>3 DEF DisableRoute, Goto
  <2>2. PlaceInv'
    BY <1>1, <2>1, SameDesires DEF PlaceInv, TypeInv, locals
  <2> QED BY <1>1, <1>2, <2>1, <2>2, StepWithin DEF Shortened, locals, TypeInv, TypeOK
<1>4. CASE CheckDisabled \/ DisableFails
  <2>1. PICK how \in Ends : Finish(how)
    BY <1>4 DEF CheckDisabled, DisableFails, Ends
  <2> QED BY <1>1, <1>2, <2>1, RunEnds
<1> QED BY <1>3, <1>4

LEMMA TypeWrite == ASSUME TypeInv, WriteGroup PROVE TypeInv'
<1> DEFINE g == NextGroup
           u == Undo(NextGroup)
<1>1. /\ pc = "groups" /\ todo # {} /\ todo' = todo \ {Min(todo)}
      /\ mutations' = Append(mutations, u)
      /\ UNCHANGED <<wanted, pc, seen, routeDone, extra, outcome, edited, unseen>>
  BY DEF WriteGroup
<1>2. /\ g \in Group /\ g.name = Min(todo)
      /\ u \in Mutation /\ u.group.id = g.id /\ u.group.name = g.name /\ Undoes(u)
      /\ u.group = g \/ u.group \in seen.groups
      /\ Consistent(Known \cup {g})
      /\ \A m \in Mutated : m.name # g.name
  BY <1>1, NextFacts
<1>3. /\ remote' = SetGroup(g) \/ (remote' = remote /\ Named(seen, Min(todo)) # {})
      /\ misled' \in BOOLEAN /\ faults' \in [{"request", "edit", "crash"} -> Nat]
  <2>1. CASE Named(seen, Min(todo)) = {}
    BY <2>1 DEF WriteGroup, TypeInv, TypeOK
  <2>2. CASE Named(seen, Min(todo)) # {}
    <3>1. Request(SetGroup(g), TRUE)
      BY <2>2 DEF WriteGroup
    <3> QED BY <2>2, <3>1, Requested DEF TypeInv
  <2> QED BY <2>1, <2>2
<1> HIDE DEF g, u
<1>4. Sound(remote')
  BY <1>2, <1>3, SoundGroup, SoundRemote
<1>5. mutations \in Seq(Mutation)
  BY DEF TypeInv, TypeOK
<1>6. /\ mutations' \in Seq(Mutation)
      /\ DOMAIN mutations' = DOMAIN mutations \cup {Len(mutations) + 1}
      /\ \A i \in DOMAIN mutations : mutations'[i] = mutations[i] /\ i # Len(mutations) + 1
      /\ mutations'[Len(mutations) + 1] = u
      /\ Range(mutations') = Range(mutations) \cup {u}
  BY <1>1, <1>2, <1>5, AppendFacts
<1>7. Mutated' = Mutated \cup {u.group}
  BY <1>6 DEF Mutated
<1>8. /\ remote'.groups \subseteq remote.groups \cup {g}
      /\ remote'.route = remote.route
  BY <1>3 DEF SetGroup, TypeInv, TypeOK, Controller
<1>9. ObjectInv'
  <2>1. Known' \subseteq Known \cup {g}
    BY <1>1, <1>2, <1>7, <1>8 DEF Known
  <2>2. Consistent(Known)' /\ OnePerId(remote.groups)' /\ OnePerId(seen.groups)'
        /\ FewRefs(remote)' /\ FewRefs(seen)'
    <3>1. Consistent(Known')
      BY <1>2, <2>1 DEF Consistent
    <3> QED BY <1>1, <1>4, <3>1 DEF Sound, TypeInv, ObjectInv, FewRefs, OnePerId, Consistent
  <2>3. ASSUME NEW i \in DOMAIN mutations' PROVE Undoes(mutations[i])'
    <3>1. Undoes(mutations'[i])
      BY <1>2, <1>6 DEF TypeInv, ObjectInv
    <3>2. DesiredNames' = DesiredNames /\ wanted' = wanted /\ seen' = seen
      BY <1>1, SameDesires
    <3> QED BY <3>1, <3>2 DEF Undoes, Named
  <2>4. \A i, j \in DOMAIN mutations' :
            mutations'[i].group.name = mutations'[j].group.name => i = j
    <3>1. \A i \in DOMAIN mutations : mutations[i].group.name # u.group.name
      BY <1>2, KnownTypes DEF TypeInv
    <3>2. \A i, j \in DOMAIN mutations :
              mutations[i].group.name = mutations[j].group.name => i = j
      BY DEF TypeInv, ObjectInv
    <3> QED BY <1>6, <3>1, <3>2
  <2> QED BY <2>2, <2>3, <2>4 DEF ObjectInv
<1>10. TypeOK'
  BY <1>1, <1>3, <1>4, <1>6 DEF Sound, TypeInv, TypeOK
<1>11. PlaceInv'
  BY <1>1, SameDesires DEF TypeInv, PlaceInv
<1>12. WritingInv'
  <2>1. \A n : Named(remote, n) # {} => Named(remote', n) # {}
    <3> SUFFICES ASSUME NEW h \in remote.groups, remote' = SetGroup(g)
                 PROVE  Named(remote', h.name) # {}
      BY <1>3 DEF Named
    <3>1. remote'.groups = {k \in remote.groups : k.id # g.id} \cup {g}
      BY DEF SetGroup, TypeInv, TypeOK, Controller
    <3>2. h \in Known /\ (h.id = g.id => h.name = g.name)
      BY <1>2 DEF Consistent, Known
    <3>3. CASE h.id = g.id
      BY <3>1, <3>2, <3>3 DEF Named
    <3>4. CASE h.id # g.id
      BY <3>1, <3>4 DEF Named
    <3> QED BY <3>3, <3>4
  <2>2. Named(remote', g.name) # {}
    <3>1. CASE remote' = SetGroup(g)
      BY <3>1 DEF SetGroup, Named, TypeInv, TypeOK, Controller
    <3>2. CASE remote' = remote /\ Named(seen, Min(todo)) # {}
      <4>1. Named(remote, Min(todo)) # {}
        BY <1>1, <3>2, NextIsWanted DEF TypeInv, WritingInv
      <4> QED BY <1>2, <3>2, <4>1
    <3> QED BY <1>3, <3>1, <3>2
  <2>3. \A n \in todo' : Named(seen, n) = {} <=> Named(remote', n) = {}
    <3>1. \A n \in todo' : Named(remote, n) = {} => Named(remote', n) = {}
      BY <1>1, <1>2, <1>8 DEF Named
    <3>2. \A n \in todo' : Named(seen, n) = {} <=> Named(remote, n) = {}
      BY <1>1 DEF TypeInv, WritingInv
    <3> QED BY <2>1, <3>1, <3>2
  <2>4. \A i \in DOMAIN mutations' :
            /\ mutations'[i].group.name \notin todo'
            /\ Named(remote', mutations'[i].group.name) # {}
    BY <1>1, <1>2, <1>6, <2>1, <2>2 DEF TypeInv, WritingInv
  <2>5. remote'.route.refs = seen'.route.refs
    BY <1>1, <1>8 DEF TypeInv, WritingInv, Named
  <2> QED BY <1>1, <2>3, <2>4, <2>5 DEF WritingInv, Named
<1> QED BY <1>9, <1>10, <1>11, <1>12 DEF TypeInv

LEMMA TypeRoute ==
    ASSUME TypeInv,
           GroupsWritten \/ CreatePolicyRoute \/ FindRoute \/ UpdatePolicyRoute \/ Verify
    PROVE  TypeInv'
<1>1. UNCHANGED <<wanted, seen>> /\ edited' \in BOOLEAN /\ unseen' \in BOOLEAN
  BY DEF GroupsWritten, CreatePolicyRoute, FindRoute, UpdatePolicyRoute, Verify,
         history, TypeInv, TypeOK
<1>2. /\ Sound(remote') /\ misled' \in BOOLEAN
      /\ faults' \in [{"request", "edit", "crash"} -> Nat]
  <2>1. CASE pc = "route" /\ Request(SetRoute(DesiredRoute), TRUE)
    <3>1. Effect = SetRoute(DesiredRoute)
      BY <2>1 DEF Effect
    <3> QED BY <2>1, <3>1, Requested, SoundRemote, SoundEffect DEF TypeInv
  <2>2. CASE UNCHANGED <<remote, faults, misled>>
    BY <2>2, SoundRemote DEF TypeInv, TypeOK
  <2> QED BY <2>1, <2>2 DEF GroupsWritten, CreatePolicyRoute, FindRoute,
                            UpdatePolicyRoute, Verify, history
<1>3. CASE (FindRoute \/ Verify) /\ Rollback
  <2>1. pc \in {"groups", "route", "findRoute", "verify"}
    BY <1>3 DEF FindRoute, Verify
  <2> QED BY <1>1, <1>2, <1>3, <2>1, RollbackBegins
<1>4. ASSUME ~((FindRoute \/ Verify) /\ Rollback)
      PROVE  /\ UNCHANGED <<mutations, todo, extra, outcome>>
             /\ \/ /\ pc = "groups" /\ todo = {} /\ routeDone' = routeDone
                   /\ pc' = IF seen.route = DesiredRoute THEN "verify" ELSE "route"
                \/ pc = "route" /\ ~seen.route.exists /\ pc' = "findRoute"
                   /\ routeDone' = routeDone
                \/ pc = "findRoute" /\ pc' = "verify" /\ routeDone' = "created"
                \/ pc = "route" /\ pc' = "verify" /\ routeDone' = "changed"
                \/ pc = "verify" /\ pc' = "cleanup" /\ routeDone' = routeDone
  BY <1>4 DEF GroupsWritten, CreatePolicyRoute, FindRoute, UpdatePolicyRoute, Verify,
              locals, Goto
<1>5. CASE ~((FindRoute \/ Verify) /\ Rollback)
  <2>1. PlaceInv'
    <3>1. /\ mutations' = mutations /\ DesiredNames' = DesiredNames
          /\ ExtraGroups(seen)' = ExtraGroups(seen) /\ DesiredRoute' = DesiredRoute
      BY <1>1, <1>4, <1>5, SameDesires
    <3> QED BY <1>1, <1>4, <1>5, <3>1 DEF PlaceInv, TypeInv
  <2>2. /\ pc' \in {"route", "findRoute", "verify", "cleanup"}
        /\ routeDone' \in {"none", "created", "changed"}
    BY <1>4, <1>5 DEF TypeInv, TypeOK
  <2> QED BY <1>1, <1>2, <1>4, <1>5, <2>1, <2>2, StepWithin DEF Shortened, TypeInv, TypeOK
<1> QED BY <1>3, <1>5

LEMMA TypeEnd ==
    ASSUME TypeInv, Cleanup \/ Commit
    PROVE  TypeInv'
<1>1. /\ pc = "cleanup" /\ UNCHANGED <<wanted, seen, edited, unseen>>
      /\ edited' \in BOOLEAN /\ unseen' \in BOOLEAN
  BY DEF Cleanup, Commit, history, TypeInv, TypeOK
<1>2. CASE Cleanup
  <2>1. PICK id \in extra : /\ \E b \in BOOLEAN : Request(DeleteGroup(id), b)
                            /\ extra' = extra \ {id}
    BY <1>2 DEF Cleanup
  <2>2. /\ Sound(remote') /\ misled' \in BOOLEAN
        /\ faults' \in [{"request", "edit", "crash"} -> Nat]
    <3>1. PICK b \in BOOLEAN : Request(DeleteGroup(id), b)
      BY <2>1
    <3>2. Sound(remote) /\ Sound(DeleteGroup(id))
      BY SoundRemote, SoundDeletion
    <3>3. /\ remote' = remote \/ remote' = DeleteGroup(id)
          /\ misled' \in BOOLEAN /\ faults' \in [{"request", "edit", "crash"} -> Nat]
      BY <3>1, Requested DEF TypeInv
    <3> QED BY <3>2, <3>3
  <2>3. UNCHANGED <<pc, todo, mutations, routeDone, outcome>>
    BY <1>2 DEF Cleanup
  <2>4. PlaceInv'
    BY <1>1, <2>1, <2>3, SameDesires DEF PlaceInv, TypeInv
  <2> QED BY <1>1, <2>1, <2>2, <2>3, <2>4, StepWithin DEF Shortened, TypeInv, TypeOK
<1>3. CASE Commit
  <2>1. /\ UNCHANGED <<remote, faults, misled>> /\ Finish("success")
    BY <1>3 DEF Commit, history
  <2> QED BY <1>1, <2>1, RunEnds, SoundRemote DEF Ends, TypeInv, TypeOK
<1> QED BY <1>2, <1>3

LEMMA TypeFailure == ASSUME TypeInv, RequestFails PROVE TypeInv'
<1>1. /\ pc \in {"groups", "route", "findRoute", "verify"} /\ Rollback
      /\ UNCHANGED <<wanted, seen>> /\ edited' \in BOOLEAN /\ unseen' \in BOOLEAN
  <2>1. unseen' \in BOOLEAN
    <3>1. unseen' = (unseen \/ (pc = "findRoute" /\ remote.route.exists))
      BY DEF RequestFails
    <3> QED BY <3>1, Zenon
  <2> QED BY <2>1 DEF RequestFails, TypeInv, TypeOK
<1>2. /\ Sound(remote') /\ misled' \in BOOLEAN
      /\ faults' \in [{"request", "edit", "crash"} -> Nat]
  <2>1. CASE Request(Effect, FALSE)
    BY <2>1, Requested, SoundRemote, SoundEffect DEF TypeInv
  <2>2. CASE Fault("request", MaxFaults) /\ UNCHANGED <<remote, misled>>
    BY <2>2, Counted, SoundRemote DEF TypeInv, TypeOK
  <2> QED BY <2>1, <2>2 DEF RequestFails
<1> QED BY <1>1, <1>2, RollbackBegins

LEMMA TypeUndo ==
    ASSUME TypeInv, SendUndo \/ UndoFails
    PROVE  TypeInv'
<1>1. /\ pc \in {"undoRoute", "undoGroups"} /\ UNCHANGED <<wanted, seen, edited, unseen>>
      /\ edited' \in BOOLEAN /\ unseen' \in BOOLEAN
      /\ \E b \in BOOLEAN : Request(UndoStep, b)
  BY DEF SendUndo, UndoFails, TypeInv, TypeOK
<1>2. /\ Sound(remote') /\ misled' \in BOOLEAN
      /\ faults' \in [{"request", "edit", "crash"} -> Nat]
  BY <1>1, Requested, SoundRemote, SoundUndo DEF TypeInv
<1>3. CASE \E how \in Ends : Finish(how)
  BY <1>1, <1>2, <1>3, RunEnds
<1>4. CASE SendUndo /\ ~Undone
  <2>1. /\ pc' = "undoGroups" /\ UNCHANGED <<outcome, todo, routeDone, extra>>
        /\ mutations' = IF pc = "undoRoute" THEN mutations ELSE Front(mutations)
        /\ Len(mutations) # IF pc = "undoRoute" THEN 0 ELSE 1
    BY <1>4 DEF SendUndo, Goto, Undone
  <2>2. mutations \in Seq(Mutation)
    BY DEF TypeInv, TypeOK
  <2>3. mutations' # <<>> /\ Shortened
    <3>1. CASE pc = "undoRoute"
      BY <2>1, <2>2, <3>1 DEF Shortened
    <3>2. CASE pc = "undoGroups"
      <4>1. mutations # <<>>
        BY <3>2 DEF TypeInv, PlaceInv
      <4>2. Len(Front(mutations)) = Len(mutations) - 1 /\ Len(mutations) \in Nat \ {0}
        BY <2>2, <4>1, FrontFacts
      <4>3. \A n \in Nat \ {0} : n # 1 => n - 1 # 0
        OBVIOUS
      <4> QED BY <2>1, <3>2, <4>1, <4>2, <4>3 DEF Shortened
    <3> QED BY <1>1, <3>1, <3>2
  <2>4. PlaceInv'
    <3>1. DesiredNames' = DesiredNames /\ ExtraGroups(seen)' = ExtraGroups(seen)
      BY <1>1, SameDesires
    <3> QED BY <1>1, <2>1, <2>3, <3>1 DEF PlaceInv, TypeInv
  <2> QED BY <1>1, <1>2, <2>1, <2>3, <2>4, StepWithin DEF TypeInv, TypeOK
<1> QED BY <1>3, <1>4 DEF SendUndo, UndoFails, Ends

LEMMA TypeDeath ==
    ASSUME TypeInv, ReadTimesOut \/ Crash
    PROVE  TypeInv'
<1>1. /\ pc # "idle" /\ UNCHANGED <<wanted, seen>>
      /\ misled' \in BOOLEAN /\ edited' \in BOOLEAN /\ unseen' \in BOOLEAN
      /\ faults' \in [{"request", "edit", "crash"} -> Nat]
      /\ \E how \in Ends : Finish(how)
  <2>1. Fault("request", MaxFaults) \/ Fault("crash", MaxCrashes)
    BY DEF ReadTimesOut, Crash
  <2>2. faults' \in [{"request", "edit", "crash"} -> Nat]
    BY <2>1, Counted DEF TypeInv
  <2> QED BY <2>2 DEF ReadTimesOut, Crash, history, Ends, TypeInv, TypeOK
<1>2. Sound(remote')
  <2>1. CASE remote' = remote
    BY <2>1, SoundRemote
  <2>2. CASE pc \in {"undoRoute", "undoGroups"} /\ remote' = UndoStep
    BY <2>2, SoundUndo
  <2>3. CASE remote' = Effect
    BY <2>3, SoundEffect
  <2> QED BY <2>1, <2>2, <2>3 DEF ReadTimesOut, Crash
<1> QED BY <1>1, <1>2, RunEnds

LEMMA TypeEdit == ASSUME TypeInv, UserEdits PROVE TypeInv'
<1>1. /\ UNCHANGED <<wanted, pc, seen, todo, mutations, routeDone, extra, outcome, misled, unseen>>
      /\ edited' = TRUE /\ Fault("edit", MaxEdits)
  BY DEF UserEdits, locals
<1>2. /\ Sound(remote') /\ remote'.route.refs = remote.route.refs
      /\ \A n : Named(remote', n) = {} <=> Named(remote, n) = {}
  BY SoundEdit
<1>3. ObjectInv'
  BY <1>1, <1>2, ObjectsKept DEF Shortened
<1>4. TypeOK'
  BY <1>1, <1>2, Counted DEF Sound, TypeInv, TypeOK
<1>5. PlaceInv'
  BY <1>1, SameDesires DEF PlaceInv, TypeInv
<1>6. WritingInv'
  <2>1. \A n : Named(seen, n)' = Named(seen, n)
    BY <1>1 DEF Named
  <2> QED BY <1>1, <1>2, <2>1 DEF WritingInv, TypeInv, Named
<1> QED BY <1>3, <1>4, <1>5, <1>6 DEF TypeInv

LEMMA TypeSame == ASSUME TypeInv, UNCHANGED vars PROVE TypeInv'
<1>1. UNCHANGED <<remote, wanted, pc, seen, todo, mutations, routeDone, extra, outcome,
                  faults, misled, edited, unseen>>
  BY DEF vars, locals, history
<1>2. ObjectInv'
  BY <1>1, SoundRemote, ObjectsKept DEF Shortened
<1>3. TypeOK' /\ WritingInv'
  BY <1>1 DEF TypeInv, TypeOK, WritingInv, Named
<1>4. PlaceInv'
  BY <1>1, SameDesires DEF PlaceInv, TypeInv
<1> QED BY <1>2, <1>3, <1>4 DEF TypeInv

LEMMA TypeStep == ASSUME TypeInv, [Next]_vars PROVE TypeInv'
BY TypeStart, TypeBetween, TypeDisable, TypeWrite, TypeRoute, TypeEnd, TypeFailure,
   TypeUndo, TypeDeath, TypeEdit, TypeSame DEF Next, ServiceStep

(* Every variable keeps its type: in particular the controller has an id   *)
(* for each group that a run creates.                                      *)
THEOREM TypeCorrect == Spec => []TypeOK
<1>1. TypeInv => TypeOK
  BY DEF TypeInv
<1> QED BY <1>1, TypeInit, TypeStep, PTL DEF Spec

-----------------------------------------------------------------------------
(* What a run that is alone has made of the controller *)

LEMMA AddMutation ==
    ASSUME NEW M, NEW u, u.group \in Group, \A m \in M : m.group \in Group,
           \A m \in M : m.group.id # u.group.id
    PROVE  GroupsWith(M \cup {u})
           = {h \in GroupsWith(M) : h.id # u.group.id} \cup {After(u)}
<1>1. \A m \in M : After(m).id = m.group.id
  BY DEF After, Group
<1> QED BY <1>1 DEF GroupsWith

LEMMA DropRestore ==
    ASSUME NEW M, NEW u, u.group \in Group, \A m \in M : m.group \in Group,
           \A m \in M : m.group.id # u.group.id,
           OnePerId(seen.groups), u.group \in seen.groups
    PROVE  GroupsWith(M)
           = {h \in GroupsWith(M \cup {u}) : h.id # u.group.id} \cup {u.group}
<1>1. \A m \in M : After(m).id = m.group.id
  BY DEF After, Group
<1>2. After(u).id = u.group.id
  BY DEF After, Group
<1>3. \A h \in seen.groups : h.id = u.group.id => h = u.group
  BY DEF OnePerId
<1> QED BY <1>1, <1>2, <1>3 DEF GroupsWith

LEMMA DropDeletion ==
    ASSUME NEW M, NEW u, u.group \in Group, \A m \in M : m.group \in Group,
           \A m \in M : m.group.id # u.group.id,
           \A h \in seen.groups : h.id # u.group.id
    PROVE  GroupsWith(M) = {h \in GroupsWith(M \cup {u}) : h.id # u.group.id}
<1>1. \A m \in M : After(m).id = m.group.id
  BY DEF After, Group
<1>2. After(u).id = u.group.id
  BY DEF After, Group
<1> QED BY <1>1, <1>2 DEF GroupsWith

LEMMA NothingDone == GroupsWith(Range(<<>>)) = seen.groups
BY DEF GroupsWith, Range

LEMMA SameGroupsWith ==
    ASSUME UNCHANGED <<wanted, seen>>
    PROVE  GroupsWith(Range(mutations))' = GroupsWith(Range(mutations'))
BY DEF GroupsWith, After

(* update_group or create_group, and the mutation that is noted for it.    *)
LEMMA WriteTakesEffect ==
    ASSUME TypeInv, pc = "groups", todo # {},
           remote.groups = GroupsWith(Range(mutations)),
           remote' = SetGroup(NextGroup),
           mutations' = Append(mutations, Undo(NextGroup))
    PROVE  remote'.groups = GroupsWith(Range(mutations'))
<1> DEFINE g == NextGroup
           u == Undo(NextGroup)
<1>1. /\ g \in Group /\ u \in Mutation /\ u.group.id = g.id /\ After(u) = g
      /\ Consistent(Known \cup {g}) /\ \A m \in Mutated : m.name # g.name
  BY NextFacts
<1>2. u.group \in Group /\ mutations \in Seq(Mutation)
  BY <1>1 DEF Mutation, TypeInv, TypeOK
<1>3. Range(mutations') = Range(mutations) \cup {u}
  BY <1>1, <1>2, AppendFacts
<1>4. \A m \in Range(mutations) : m.group \in Group /\ m.group \in Mutated
  BY KnownTypes DEF Mutated, TypeInv
<1>5. \A m \in Range(mutations) : m.group.id # u.group.id
  BY <1>1, <1>4 DEF Consistent, Known
<1>6. remote'.groups = {h \in remote.groups : h.id # g.id} \cup {g}
  BY DEF SetGroup, TypeInv, TypeOK, Controller
<1> HIDE DEF g, u
<1> QED BY <1>1, <1>2, <1>3, <1>4, <1>5, <1>6, AddMutation

(* _rollback_group of the last mutation.                                   *)
LEMMA UndoTakesEffect ==
    ASSUME TypeInv, mutations # <<>>,
           remote.groups = GroupsWith(Range(mutations)),
           remote' = UndoMutation(Last(mutations))
    PROVE  /\ remote'.groups = GroupsWith(Range(Front(mutations)))
           /\ remote'.route = remote.route
<1> DEFINE u == Last(mutations)
           s == Front(mutations)
<1>1. mutations \in Seq(Mutation)
  BY DEF TypeInv, TypeOK
<1>2. /\ u \in Mutation /\ Range(mutations) = Range(s) \cup {u}
      /\ DOMAIN s \subseteq DOMAIN mutations /\ Len(mutations) \in DOMAIN mutations
      /\ u = mutations[Len(mutations)]
      /\ \A i \in DOMAIN s : s[i] = mutations[i] /\ i # Len(mutations)
  BY <1>1, FrontFacts
<1>3. u.group \in Group /\ u.group \in Mutated /\ Undoes(u)
  BY <1>2, KnownTypes DEF Mutation, TypeInv, ObjectInv
<1>4. \A m \in Range(s) : m.group \in Group /\ m.group \in Mutated
                          /\ m.group.name # u.group.name
  BY <1>2, KnownTypes DEF Range, TypeInv, ObjectInv
<1>5. \A m \in Range(s) : m.group.id # u.group.id
  BY <1>3, <1>4 DEF TypeInv, ObjectInv, Consistent, Known
<1>6. CASE u.action = "restore"
  <2>1. u.group \in seen.groups /\ OnePerId(seen.groups)
    BY <1>3, <1>6 DEF Undoes, TypeInv, ObjectInv
  <2>2. remote' = SetGroup(u.group)
    BY <1>6 DEF UndoMutation
  <2>3. /\ remote'.groups = {h \in remote.groups : h.id # u.group.id} \cup {u.group}
        /\ remote'.route = remote.route
    BY <2>2 DEF SetGroup, TypeInv, TypeOK, Controller
  <2> HIDE DEF u, s
  <2> QED BY <1>2, <1>3, <1>4, <1>5, <2>1, <2>3, DropRestore DEF s
<1>7. CASE u.action = "delete"
  <2>1. \A h \in seen.groups : h.id # u.group.id
    BY <1>3, <1>7 DEF Undoes, Named, TypeInv, ObjectInv, Consistent, Known
  <2>2. remote' = DeleteGroup(u.group.id)
    BY <1>7 DEF UndoMutation
  <2>3. /\ remote'.groups = {h \in remote.groups : h.id # u.group.id}
        /\ remote'.route = remote.route
    BY <2>2 DEF DeleteGroup, TypeInv, TypeOK, Controller
  <2> HIDE DEF u, s
  <2>4. GroupsWith(Range(s)) = {h \in GroupsWith(Range(s) \cup {u}) : h.id # u.group.id}
    BY <1>3, <1>4, <1>5, <2>1, DropDeletion
  <2>5. remote'.groups = GroupsWith(Range(s))
    BY <1>2, <2>3, <2>4
  <2> QED BY <2>3, <2>5 DEF s
<1>8. u.action \in {"restore", "delete"}
  BY <1>2 DEF Mutation
<1> QED BY <1>6, <1>7, <1>8

LEMMA RouteWritten ==
    ASSUME TypeInv, NEW r
    PROVE  SetRoute(r).groups = remote.groups /\ SetRoute(r).route = r
BY DEF SetRoute, TypeInv, TypeOK, Controller

(* Rollback: where it begins, the groups are as the mutations say, and the *)
(* route is as it was unless there is something to undo.                   *)
LEMMA RollbackEffect ==
    ASSUME TypeInv, UNCHANGED <<remote, wanted, seen>>, Rollback,
           remote.groups = GroupsWith(Range(mutations)),
           routeDone = "none" => remote.route = seen.route
    PROVE  EffectInv'
<1>1. CASE mutations = <<>> /\ routeDone = "none"
  BY <1>1 DEF Rollback, Finish, EffectInv
<1>2. CASE ~(mutations = <<>> /\ routeDone = "none")
  <2>1. /\ mutations' = mutations
        /\ pc' = IF routeDone = "none" THEN "undoGroups" ELSE "undoRoute"
    BY <1>2 DEF Rollback, Goto, locals
  <2>2. remote'.groups = GroupsWith(Range(mutations))'
    BY <2>1, SameGroupsWith
  <2> QED BY <2>1, <2>2 DEF EffectInv
<1> QED BY <1>1, <1>2

LEMMA EffectStep == ASSUME RunInv, [Next]_vars PROVE EffectInv'
<1>1. TypeInv /\ EffectInv /\ PlaceInv /\ TypeOK
  BY DEF RunInv, TypeInv
<1>2. CASE pc' = "idle"
  BY <1>2 DEF EffectInv
<1>3. CASE Start /\ pc' # "idle"
  <2>1. /\ remote' = remote /\ seen' = remote /\ mutations' = <<>>
        /\ pc' \in {"disable", "groups"}
    BY <1>1, <1>3 DEF Start, Finish, PlaceInv, locals
  <2>2. GroupsWith(Range(mutations))' = remote'.groups
    BY <2>1 DEF GroupsWith, Range
  <2> QED BY <2>1, <2>2 DEF EffectInv
<1>4. CASE DisableRoute
  <2>1. /\ pc = "disable" /\ pc' = "checkDisabled"
        /\ Request(SetRoute([seen.route EXCEPT !.enabled = FALSE]), TRUE)
    BY <1>4 DEF DisableRoute, Goto
  <2>2. Alone' => remote' = SetRoute([seen.route EXCEPT !.enabled = FALSE])
    BY <1>1, <2>1, Requested DEF Alone
  <2>3. [seen.route EXCEPT !.enabled = FALSE].enabled = FALSE
    BY <1>1 DEF TypeOK, Controller, Route
  <2>4. \A r : SetRoute(r).route = r
    BY <1>1, RouteWritten
  <2>5. Alone' => ~remote'.route.enabled
    BY <2>2, <2>3, <2>4
  <2> QED BY <2>1, <2>5 DEF EffectInv
<1>5. CASE WriteGroup
  <2>1. /\ pc = "groups" /\ pc' = "groups" /\ todo # {}
        /\ UNCHANGED <<wanted, seen, edited, unseen>>
        /\ mutations' = Append(mutations, Undo(NextGroup))
        /\ \/ remote' = SetGroup(NextGroup) /\ misled' = misled
           \/ Request(SetGroup(NextGroup), TRUE)
    BY <1>5 DEF WriteGroup
  <2>2. ASSUME Alone' PROVE Alone /\ remote' = SetGroup(NextGroup)
    BY <1>1, <2>1, <2>2, Requested DEF Alone, TypeOK
  <2>3. SetGroup(NextGroup).route = remote.route
    BY <1>1 DEF SetGroup, TypeOK, Controller
  <2>4. ASSUME Alone' PROVE remote'.groups = GroupsWith(Range(mutations))'
    BY <1>1, <2>1, <2>2, <2>4, WriteTakesEffect, SameGroupsWith DEF EffectInv
  <2> QED BY <1>1, <2>1, <2>2, <2>3, <2>4 DEF EffectInv
<1>6. CASE GroupsWritten
  <2>1. /\ pc = "groups" /\ UNCHANGED <<remote, wanted, seen, mutations, history>>
        /\ pc' = IF seen.route = DesiredRoute THEN "verify" ELSE "route"
    BY <1>6 DEF GroupsWritten, Goto, locals
  <2>2. /\ GroupsWith(Range(mutations))' = GroupsWith(Range(mutations))
        /\ DesiredRoute' = DesiredRoute
    BY <2>1, SameGroupsWith, SameDesires
  <2>3. Alone' => Alone
    BY <2>1 DEF Alone, history
  <2> QED BY <1>1, <2>1, <2>2, <2>3 DEF EffectInv
<1>7. CASE CreatePolicyRoute \/ UpdatePolicyRoute
  <2>1. /\ pc = "route" /\ pc' \in {"findRoute", "verify"}
        /\ UNCHANGED <<wanted, seen, mutations, edited, unseen>>
        /\ Request(SetRoute(DesiredRoute), TRUE)
    BY <1>7 DEF CreatePolicyRoute, UpdatePolicyRoute, Goto, locals
  <2>2. ASSUME Alone' PROVE Alone /\ remote' = SetRoute(DesiredRoute)
    BY <1>1, <2>1, <2>2, Requested DEF Alone, TypeOK
  <2>3. /\ GroupsWith(Range(mutations))' = GroupsWith(Range(mutations))
        /\ DesiredRoute' = DesiredRoute
    BY <2>1, SameGroupsWith, SameDesires
  <2> QED BY <1>1, <2>1, <2>2, <2>3, RouteWritten DEF EffectInv
<1>8. CASE FindRoute
  <2>1. /\ pc = "findRoute" /\ UNCHANGED <<remote, wanted, seen, history>>
        /\ (~remote.route.exists /\ Rollback)
           \/ (pc' = "verify" /\ mutations' = mutations)
    BY <1>8 DEF FindRoute, Goto
  <2>2. Alone' => Alone
    BY <2>1 DEF Alone, history
  <2>3. Alone => remote.route.exists
    BY <1>1, <2>1 DEF EffectInv, DesiredRoute
  <2>4. CASE pc' = "verify" /\ mutations' = mutations
    <3>1. /\ GroupsWith(Range(mutations))' = GroupsWith(Range(mutations))
          /\ DesiredRoute' = DesiredRoute
      BY <2>1, <2>4, SameGroupsWith, SameDesires
    <3> QED BY <1>1, <2>1, <2>2, <2>4, <3>1 DEF EffectInv
  <2>5. CASE ~remote.route.exists /\ Rollback
    BY <2>2, <2>3, <2>5 DEF EffectInv
  <2> QED BY <2>1, <2>4, <2>5
<1>9. CASE Verify
  <2>1. /\ pc = "verify" /\ UNCHANGED <<remote, wanted, seen, history>>
        /\ pc' = "cleanup" \/ Rollback
    BY <1>9 DEF Verify, Goto
  <2>2. Alone' => Alone
    BY <2>1 DEF Alone, history
  <2>3. CASE Alone /\ Rollback
    <3>1. /\ remote.groups = GroupsWith(Range(mutations))
          /\ routeDone = "none" => remote.route = seen.route
      BY <1>1, <2>1, <2>3 DEF EffectInv, PlaceInv
    <3> QED BY <1>1, <2>1, <2>3, <3>1, RollbackEffect
  <2> QED BY <2>1, <2>2, <2>3 DEF EffectInv
<1>10. CASE RequestFails
  <2>1. /\ pc \in {"groups", "route", "findRoute", "verify"}
        /\ UNCHANGED <<wanted, seen, edited>> /\ Rollback
        /\ UNCHANGED <<remote, misled>> \/ Request(Effect, FALSE)
        /\ unseen' = (unseen \/ (pc = "findRoute" /\ remote.route.exists))
    BY <1>10 DEF RequestFails
  <2>2. ASSUME Alone'
        PROVE  Alone /\ remote' = remote /\ ~(pc = "findRoute" /\ remote.route.exists)
    <3>1. misled' = FALSE => misled = FALSE /\ remote' = remote
      BY <1>1, <2>1, Requested DEF TypeOK
    <3>2. unseen' = FALSE => unseen = FALSE /\ ~(pc = "findRoute" /\ remote.route.exists)
      BY <1>1, <2>1 DEF TypeOK
    <3> QED BY <2>1, <2>2, <3>1, <3>2 DEF Alone
  <2>3. ASSUME Alone'
        PROVE  /\ remote.groups = GroupsWith(Range(mutations))
               /\ routeDone = "none" => remote.route = seen.route
    <3>1. pc # "findRoute"
      BY <1>1, <2>2, <2>3 DEF EffectInv, DesiredRoute
    <3> QED BY <1>1, <2>1, <2>2, <2>3, <3>1 DEF EffectInv, PlaceInv
  <2>4. ASSUME Alone' PROVE EffectInv'
    BY <1>1, <2>1, <2>2, <2>3, <2>4, RollbackEffect
  <2> QED BY <2>4 DEF EffectInv
<1>11. CASE SendUndo /\ pc' # "idle"
  <2>1. /\ pc \in {"undoRoute", "undoGroups"} /\ pc' = "undoGroups"
        /\ UNCHANGED <<wanted, seen, edited, unseen>> /\ Request(UndoStep, TRUE)
        /\ mutations' = IF pc = "undoRoute" THEN mutations ELSE Front(mutations)
    BY <1>11 DEF SendUndo, Finish, Goto
  <2>2. ASSUME Alone' PROVE Alone /\ remote' = UndoStep
    BY <1>1, <2>1, <2>2, Requested DEF Alone, TypeOK
  <2>3. CASE pc = "undoRoute"
    <3>1. GroupsWith(Range(mutations))' = GroupsWith(Range(mutations))
      BY <2>1, <2>3, SameGroupsWith
    <3> QED BY <1>1, <2>1, <2>2, <2>3, <3>1, RouteWritten DEF EffectInv, UndoStep
  <2>4. ASSUME pc = "undoGroups", Alone' PROVE EffectInv'
    <3>1. mutations # <<>>
      BY <1>1, <2>4 DEF PlaceInv
    <3>2. /\ remote.groups = GroupsWith(Range(mutations)) /\ remote.route = seen.route
          /\ remote' = UndoMutation(Last(mutations))
      BY <1>1, <2>2, <2>4 DEF EffectInv, UndoStep
    <3>3. /\ remote'.groups = GroupsWith(Range(Front(mutations)))
          /\ remote'.route = remote.route
      BY <1>1, <3>1, <3>2, UndoTakesEffect
    <3>4. remote'.groups = GroupsWith(Range(mutations))'
      BY <2>1, <2>4, <3>3, SameGroupsWith
    <3> QED BY <2>1, <3>2, <3>3, <3>4 DEF EffectInv
  <2> QED BY <2>1, <2>3, <2>4 DEF EffectInv
<1>12. CASE Cleanup
  BY <1>12 DEF Cleanup, EffectInv
<1>13. CASE UserEdits
  BY <1>13 DEF UserEdits, EffectInv, Alone
<1>14. CASE UNCHANGED vars
  <2>1. UNCHANGED <<remote, wanted, pc, seen, mutations, misled, edited, unseen>>
    BY <1>14 DEF vars, locals, history
  <2>2. /\ GroupsWith(Range(mutations))' = GroupsWith(Range(mutations))
        /\ DesiredRoute' = DesiredRoute
    BY <2>1, SameGroupsWith, SameDesires
  <2> QED BY <1>1, <2>1, <2>2 DEF EffectInv, Alone
<1>15. CASE StartFails \/ DryRun \/ FeedChanges \/ OperatorRepairs \/ CheckDisabled
            \/ DisableFails \/ Commit \/ UndoFails \/ ReadTimesOut \/ Crash
  <2>1. pc' = "idle"
    BY <1>1, <1>15 DEF StartFails, DryRun, FeedChanges, OperatorRepairs, CheckDisabled,
       DisableFails, Commit, UndoFails, ReadTimesOut, Crash, Finish, PlaceInv
  <2> QED BY <1>2, <2>1
<1> QED BY <1>2, <1>3, <1>4, <1>5, <1>6, <1>7, <1>8, <1>9, <1>10, <1>11, <1>12, <1>13,
           <1>14, <1>15 DEF Next, ServiceStep

-----------------------------------------------------------------------------
(* The destinations of the route *)

LEMMA CoverStep == ASSUME RunInv, [Next]_vars PROVE CoverInv' /\ SightInv'
<1>1. TypeInv /\ CoverInv /\ SightInv /\ PlaceInv /\ TypeOK
  BY DEF RunInv, TypeInv
<1>2. CASE pc' \notin {"groups", "route", "findRoute"}
  BY <1>2 DEF CoverInv, SightInv
<1>3. CASE Start /\ pc' \in {"groups", "route", "findRoute"}
  <2>1. /\ seen' = remote /\ wanted' = wanted /\ unseen' = FALSE
        /\ todo' = GroupsToWrite(remote)
    BY <1>1, <1>3 DEF Start, Finish, PlaceInv, locals
  <2>2. DesiredNames' = DesiredNames
    BY <2>1 DEF DesiredNames
  <2>3. \A n \in DesiredNames :
            n \in GroupsToWrite(remote)
            \/ \E g \in remote.groups : g.name = n /\ g.dest = wanted.chunks[n]
    BY DEF GroupsToWrite, Named
  <2> QED BY <2>1, <2>2, <2>3 DEF CoverInv, SightInv
<1>4. CASE WriteGroup
  <2> DEFINE u == Undo(NextGroup)
  <2>1. /\ pc = "groups" /\ pc' = "groups" /\ todo # {} /\ todo' = todo \ {Min(todo)}
        /\ UNCHANGED <<wanted, seen, unseen>> /\ mutations' = Append(mutations, u)
    BY <1>4 DEF WriteGroup
  <2>2. u \in Mutation /\ u.group.name = Min(todo)
    BY <1>1, <2>1, NextFacts
  <2>3. mutations \in Seq(Mutation)
    BY <1>1 DEF TypeOK
  <2> HIDE DEF u
  <2>4. Range(mutations') = Range(mutations) \cup {u}
    BY <2>1, <2>2, <2>3, AppendFacts
  <2>5. DesiredNames' = DesiredNames
    BY <2>1 DEF DesiredNames
  <2> QED BY <1>1, <2>1, <2>2, <2>4, <2>5 DEF CoverInv, SightInv
<1>5. CASE \/ GroupsWritten \/ CreatePolicyRoute \/ UserEdits \/ UNCHANGED vars
  <2>1. /\ UNCHANGED <<wanted, seen, unseen, todo, mutations>>
        /\ \/ pc' = pc
           \/ pc = "groups" /\ pc' \in {"route", "verify"}
           \/ pc = "route" /\ pc' = "findRoute"
    BY <1>5 DEF GroupsWritten, CreatePolicyRoute, UserEdits, vars, locals, history, Goto
  <2>2. DesiredNames' = DesiredNames
    BY <2>1 DEF DesiredNames
  <2> QED BY <1>1, <2>1, <2>2 DEF CoverInv, SightInv
<1>6. CASE FindRoute \/ RequestFails \/ Verify \/ SendUndo
  <2>1. pc' \notin {"groups", "route", "findRoute"}
    BY <1>6 DEF FindRoute, RequestFails, Verify, SendUndo, Rollback, Finish, Goto
  <2> QED BY <1>2, <2>1
<1>7. CASE \/ StartFails \/ DryRun \/ FeedChanges \/ OperatorRepairs \/ CheckDisabled
           \/ DisableFails \/ Commit \/ UndoFails \/ ReadTimesOut \/ Crash
           \/ DisableRoute \/ UpdatePolicyRoute \/ Cleanup
  <2>1. pc' \notin {"groups", "route", "findRoute"}
    BY <1>1, <1>7 DEF StartFails, DryRun, FeedChanges, OperatorRepairs, CheckDisabled,
       DisableFails, Commit, UndoFails, ReadTimesOut, Crash, DisableRoute,
       UpdatePolicyRoute, Cleanup, Finish, Goto, PlaceInv
  <2> QED BY <1>2, <2>1
<1> QED BY <1>2, <1>3, <1>4, <1>5, <1>6, <1>7 DEF Next, ServiceStep

(* When the last group was written, the groups of the route hold the list. *)
LEMMA WholeList ==
    ASSUME TypeInv, CoverInv, pc = "route",
           remote.groups = GroupsWith(Range(mutations))
    PROVE  Destinations(remote, FinalIds) = Range(wanted.chunks)
<1>1. /\ todo = {} /\ Consistent(Known) /\ OnePerId(seen.groups)
      /\ \A n \in DesiredNames :
             \/ \E m \in Range(mutations) : m.group.name = n
             \/ \E g \in seen.groups : g.name = n /\ g.dest = wanted.chunks[n]
  BY DEF TypeInv, PlaceInv, ObjectInv, CoverInv
<1>2. \A m \in Range(mutations) :
          /\ m.group \in Known /\ m.group \in Group /\ Undoes(m)
          /\ m.action \in {"restore", "delete"}
          /\ After(m).id = m.group.id /\ After(m).name = m.group.name
          /\ After(m).dest = wanted.chunks[m.group.name]
  <2> SUFFICES ASSUME NEW m \in Range(mutations)
               PROVE  /\ m.group \in Known /\ m.group \in Group /\ Undoes(m)
                      /\ m.action \in {"restore", "delete"}
                      /\ After(m).id = m.group.id /\ After(m).name = m.group.name
                      /\ After(m).dest = wanted.chunks[m.group.name]
    OBVIOUS
  <2>1. m \in Mutation /\ Undoes(m) /\ m.group \in Mutated
    BY KnownTypes DEF Range, Mutated, TypeInv, ObjectInv
  <2>2. m.group \in Group
    BY <2>1 DEF Mutation
  <2> QED BY <2>1, <2>2 DEF Known, After, Group, Mutation
<1>3. \A i \in FinalIds : \E g \in Known : g.id = i /\ g.name \in DesiredNames
  BY FinalGroups
<1>4. ASSUME NEW g \in remote.groups, g.id \in FinalIds
      PROVE  g.name \in DesiredNames /\ g.dest = wanted.chunks[g.name]
  <2>1. PICK k \in Known : k.id = g.id /\ k.name \in DesiredNames
    BY <1>3, <1>4
  <2>2. g \in Known /\ g.name \in DesiredNames
    BY <1>1, <2>1 DEF Consistent, Known
  <2>3. CASE \E m \in Range(mutations) : g = After(m)
    BY <1>2, <2>2, <2>3
  <2>4. CASE g \in seen.groups /\ \A m \in Range(mutations) : g.id # m.group.id
    <3>1. ~ \E m \in Range(mutations) : m.group.name = g.name
      BY <1>1, <1>2, <2>2, <2>4 DEF Consistent
    <3>2. PICK h \in seen.groups : h.name = g.name /\ h.dest = wanted.chunks[g.name]
      BY <1>1, <2>2, <3>1
    <3>3. h = g
      BY <1>1, <2>2, <2>4, <3>2 DEF Consistent, OnePerId, Known
    <3> QED BY <2>2, <3>2, <3>3
  <2> QED BY <2>3, <2>4 DEF GroupsWith
<1>5. ASSUME NEW n \in DesiredNames
      PROVE  \E g \in remote.groups : g.id \in FinalIds /\ g.dest = wanted.chunks[n]
  <2>1. ASSUME NEW m \in Range(mutations), m.group.name = n
        PROVE  \E g \in remote.groups : g.id \in FinalIds /\ g.dest = wanted.chunks[n]
    <3>1. After(m) \in remote.groups
      BY DEF GroupsWith
    <3>2. m.group.id \in FinalIds
      BY <1>2, <2>1 DEF FinalIds, Undoes
    <3> QED BY <1>2, <2>1, <3>1, <3>2
  <2>2. ASSUME NEW h \in seen.groups, h.name = n, h.dest = wanted.chunks[n]
        PROVE  \E g \in remote.groups : g.id \in FinalIds /\ g.dest = wanted.chunks[n]
    <3>1. h.id \in FinalIds
      BY <2>2 DEF FinalIds
    <3>2. CASE \E m \in Range(mutations) : m.group.id = h.id
      <4>1. PICK m \in Range(mutations) : m.group.id = h.id
        BY <3>2
      <4>2. m.group.name = n
        BY <1>1, <1>2, <2>2, <4>1 DEF Consistent, Known
      <4> QED BY <2>1, <4>2
    <3>3. CASE \A m \in Range(mutations) : h.id # m.group.id
      BY <2>2, <3>1, <3>3 DEF GroupsWith
    <3> QED BY <3>2, <3>3
  <2> QED BY <1>1, <2>1, <2>2
<1>6. Range(wanted.chunks) = {wanted.chunks[n] : n \in DesiredNames}
  BY Wanted DEF TypeInv
<1> QED BY <1>4, <1>5, <1>6 DEF Destinations

LEMMA VerifiedStep == ASSUME RunInv, [Next]_vars PROVE VerifiedInv'
<1>1. TypeInv /\ VerifiedInv /\ PlaceInv
  BY DEF RunInv, TypeInv
<1>2. CASE pc' # "cleanup"
  BY <1>2 DEF VerifiedInv
<1>3. ASSUME UNCHANGED <<wanted, seen, mutations>>, remote' = remote
      PROVE  /\ DesiredRoute' = DesiredRoute
             /\ Destinations(remote, remote.route.refs)' = Destinations(remote, remote.route.refs)
  BY <1>3, SameDesires DEF Destinations
<1>4. CASE Verify /\ pc' = "cleanup"
  <2>1. /\ UNCHANGED <<remote, wanted, seen, mutations>>
        /\ remote.route = DesiredRoute
        /\ Destinations(remote, remote.route.refs) = Range(wanted.chunks)
    BY <1>4 DEF Verify, Rollback, Finish, Goto, locals
  <2> QED BY <1>3, <2>1 DEF VerifiedInv
<1>5. CASE Cleanup
  <2>1. PICK id \in extra : remote' = remote \/ remote' = DeleteGroup(id)
    <3>1. PICK id \in extra : \E b \in BOOLEAN : Request(DeleteGroup(id), b)
      BY <1>5 DEF Cleanup
    <3>2. PICK b \in BOOLEAN : Request(DeleteGroup(id), b)
      BY <3>1
    <3>3. remote' = remote \/ remote' = DeleteGroup(id)
      <4>1. TypeOK
        BY <1>1 DEF TypeInv
      <4> QED BY <3>2, <4>1, Requested
    <3> QED BY <3>3
  <2>2. /\ pc = "cleanup" /\ UNCHANGED <<wanted, seen, mutations, edited>>
    BY <1>5 DEF Cleanup
  <2>3. CASE remote' = remote
    BY <1>1, <1>3, <2>2, <2>3 DEF VerifiedInv
  <2>4. CASE remote' = DeleteGroup(id)
    <3>1. /\ remote'.groups = {h \in remote.groups : h.id # id}
          /\ remote'.route = remote.route
      BY <1>1, <2>4 DEF DeleteGroup, TypeInv, TypeOK, Controller
    <3>2. id \notin FinalIds
      <4>1. PICK h \in seen.groups : h.id = id /\ h.name \notin DesiredNames
        BY <1>1 DEF PlaceInv, ExtraGroups
      <4>2. h \in Known
        BY DEF Known
      <4> QED BY <1>1, <4>1, <4>2, FinalGroups DEF TypeInv, ObjectInv, Consistent
    <3>3. Destinations(remote', FinalIds) = Destinations(remote, FinalIds)
      BY <3>1, <3>2 DEF Destinations
    <3>4. FinalIds' = FinalIds /\ DesiredRoute' = DesiredRoute
      BY <2>2, SameDesires
    <3>5. DesiredRoute.refs = FinalIds
      BY DEF DesiredRoute
    <3> QED BY <1>1, <2>2, <3>1, <3>3, <3>4, <3>5 DEF VerifiedInv
  <2> QED BY <2>1, <2>3, <2>4
<1>6. CASE UserEdits
  BY <1>6 DEF UserEdits, VerifiedInv
<1>7. CASE UNCHANGED vars
  <2>1. UNCHANGED <<remote, wanted, seen, mutations, pc, edited>>
    BY <1>7 DEF vars, locals, history
  <2> QED BY <1>1, <1>3, <2>1 DEF VerifiedInv
<1>8. CASE \/ Start \/ StartFails \/ DryRun \/ FeedChanges \/ OperatorRepairs
           \/ CheckDisabled \/ DisableFails \/ Commit \/ UndoFails \/ ReadTimesOut \/ Crash
           \/ DisableRoute \/ UpdatePolicyRoute \/ CreatePolicyRoute
           \/ WriteGroup \/ GroupsWritten
  <2>1. pc' # "cleanup"
    BY <1>1, <1>8 DEF Start, StartFails, DryRun, FeedChanges, OperatorRepairs,
       CheckDisabled, DisableFails, Commit, UndoFails, ReadTimesOut, Crash, DisableRoute,
       UpdatePolicyRoute, CreatePolicyRoute, WriteGroup, GroupsWritten, Finish, Goto,
       PlaceInv, locals
  <2> QED BY <1>2, <2>1
<1>9. CASE FindRoute \/ RequestFails \/ SendUndo
  <2>1. pc' # "cleanup"
    BY <1>9 DEF FindRoute, RequestFails, SendUndo, Rollback, Finish, Goto
  <2> QED BY <1>2, <2>1
<1> QED BY <1>2, <1>4, <1>5, <1>6, <1>7, <1>8, <1>9 DEF Next, ServiceStep

LEMMA RunAlways == Spec => []RunInv
<1>1. Init => RunInv
  <2> SUFFICES ASSUME Init PROVE RunInv
    OBVIOUS
  <2>1. pc = "idle"
    BY DEF Init
  <2> QED BY <2>1, TypeInit DEF RunInv, EffectInv, CoverInv, SightInv, VerifiedInv
<1>2. RunInv /\ [Next]_vars => RunInv'
  BY TypeStep, EffectStep, CoverStep, VerifiedStep DEF RunInv
<1> QED BY <1>1, <1>2, PTL DEF Spec

(* The groups come first: a run switches the route on only over the whole  *)
(* list, at every failure and kill.                                        *)
THEOREM NeverOverAnotherList == Spec => EnabledOnlyOverItsList
<1> DEFINE Step == ~remote.route.enabled /\ remote'.route.enabled /\ pc = "route"
                       /\ ~misled /\ ~edited'
                   => Destinations(remote', remote'.route.refs) = Range(wanted.chunks)
<1>1. ASSUME RunInv, [Next]_vars PROVE Step
  <2> SUFFICES ASSUME ~remote.route.enabled, remote'.route.enabled, pc = "route",
                      ~misled, ~edited'
               PROVE  Destinations(remote', remote'.route.refs) = Range(wanted.chunks)
    OBVIOUS
  <2>1. TypeInv /\ TypeOK
    BY <1>1 DEF RunInv, TypeInv
  <2>2. remote' # remote /\ pc = "route"
    OBVIOUS
  <2>3. /\ remote' = SetRoute(DesiredRoute) /\ edited' = edited
    <3>1. Effect = SetRoute(DesiredRoute)
      BY DEF Effect
    <3>2. CASE CreatePolicyRoute \/ UpdatePolicyRoute
      <4>1. Request(SetRoute(DesiredRoute), TRUE) /\ edited' = edited
        BY <3>2 DEF CreatePolicyRoute, UpdatePolicyRoute
      <4> QED BY <2>1, <2>2, <4>1, Requested
    <3>3. CASE RequestFails
      <4>1. (remote' = remote \/ Request(Effect, FALSE)) /\ edited' = edited
        BY <3>3 DEF RequestFails
      <4> QED BY <2>1, <2>2, <3>1, <4>1, Requested
    <3>4. CASE ReadTimesOut
      BY <2>2, <3>1, <3>4 DEF ReadTimesOut, history
    <3>5. CASE Crash \/ UNCHANGED vars
      BY <2>2, <3>5 DEF Crash, vars
    <3>6. CASE UserEdits
      BY <3>6 DEF UserEdits
    <3>7. pc # "idle"
      BY <2>2
    <3>8. outcome # "partial"
      BY <2>1, <3>7 DEF TypeInv, PlaceInv
    <3> QED
      BY <1>1, <2>2, <3>2, <3>3, <3>4, <3>5, <3>6, <3>7, <3>8
      DEF Next, ServiceStep, Start, StartFails, DisableRoute, CheckDisabled, DisableFails,
          WriteGroup, GroupsWritten, FindRoute, Verify, Cleanup, Commit, SendUndo,
          UndoFails, DryRun, FeedChanges, OperatorRepairs
  <2>4. Alone
    BY <1>1, <2>1, <2>3 DEF RunInv, SightInv, Alone, TypeOK
  <2>5. Destinations(remote, FinalIds) = Range(wanted.chunks)
    BY <1>1, <2>1, <2>4, WholeList DEF RunInv, EffectInv
  <2>6. remote'.groups = remote.groups /\ remote'.route.refs = FinalIds
    BY <2>1, <2>3, RouteWritten DEF DesiredRoute
  <2> QED BY <2>5, <2>6 DEF Destinations
<1> QED BY <1>1, RunAlways, PTL DEF Spec, EnabledOnlyOverItsList

-----------------------------------------------------------------------------
(* The refinement *)

(* What RouterUpdate sees: the controller as it was, until the run is over.*)
Seen == IF pc = "idle" THEN remote ELSE seen
Report(o) ==
    CASE o \in {"noop", "success"} -> "success"
      [] o \in {"rolled_back", "nothing_done", "dry_run"} -> "restored"
      [] o \in {"crashed", "uncaught"} -> "unknown"
      [] OTHER -> o
Outcomes == Ends \cup {"none", "dry_run"}

LEMMA Reports ==
    /\ \A o \in {"noop", "success"} : Report(o) = "success"
    /\ \A o \in {"rolled_back", "nothing_done", "dry_run"} : Report(o) = "restored"
    /\ \A o \in {"crashed", "uncaught"} : Report(o) = "unknown"
    /\ \A o \in {"none", "partial", "error"} : Report(o) = o
    /\ \A o \in Outcomes : Report(o) = "partial" => o = "partial"
<1>1. \A o \in {"noop", "success"} : Report(o) = "success"
  BY DEF Report
<1>2. \A o \in {"rolled_back", "nothing_done", "dry_run"} : Report(o) = "restored"
  BY DEF Report
<1>3. \A o \in {"crashed", "uncaught"} : Report(o) = "unknown"
  BY DEF Report
<1>4. \A o \in {"none", "partial", "error"} : Report(o) = o
  BY DEF Report
<1>5. \A o \in Outcomes : Report(o) = "partial" => o = "partial"
  BY <1>1, <1>2, <1>3, <1>4 DEF Outcomes, Ends
<1> QED BY <1>1, <1>2, <1>3, <1>4, <1>5

(* The ways a step of a run may look from outside.                         *)
Excused == misled' = TRUE \/ unseen' = TRUE \/ edited' = TRUE

LEMMA ContractRun ==
    ASSUME TypeOK, TypeOK', outcome # "partial", wanted' = wanted,
           \/ outcome' \in {"noop", "success"} /\ (edited' = TRUE \/ Fits(Seen', wanted))
           \/ /\ outcome' \in {"rolled_back", "nothing_done", "dry_run"}
              /\ Excused \/ Seen' = Seen
           \/ outcome' = "error" /\ (Excused \/ Seen' = Seen \/ Fits(Seen', wanted))
           \/ outcome' \in {"partial", "crashed", "uncaught"}
           \/ outcome' = "none" /\ Seen' = Seen
    PROVE  Contract!Next
<1>1. Seen' \in Controller /\ edited' \in BOOLEAN
  BY DEF TypeOK, Seen
<1>2. (misled' \/ unseen') \in BOOLEAN
  BY Zenon
<1>3. Report(outcome) # "partial"
  BY Reports DEF TypeOK, Outcomes, Ends
<1>4. Excused => (misled' \/ unseen') \/ edited'
  BY DEF Excused
<1> USE <1>1, <1>2, <1>3, <1>4, Reports
<1>5. ASSUME NEW how, Report(outcome') = how PROVE Contract!Run(how)
  BY <1>5 DEF Contract!Run, Report, Seen
<1>6. CASE outcome' \in {"noop", "success"} /\ (edited' = TRUE \/ Fits(Seen', wanted))
  <2>1. Contract!Run("success")
    BY <1>5, <1>6
  <2> QED BY <1>6, <2>1 DEF Contract!Next, Contract!Succeed, Seen
<1>7. CASE /\ outcome' \in {"rolled_back", "nothing_done", "dry_run"}
           /\ Excused \/ Seen' = Seen
  <2>1. Contract!Run("restored")
    BY <1>5, <1>7
  <2> QED BY <1>7, <2>1 DEF Contract!Next, Contract!Restore, Seen
<1>8. CASE outcome' = "error" /\ (Excused \/ Seen' = Seen \/ Fits(Seen', wanted))
  <2>1. Contract!Run("error")
    BY <1>5, <1>8
  <2> QED BY <1>8, <2>1 DEF Contract!Next, Contract!FailCleanly, Seen
<1>9. CASE outcome' = "partial"
  BY <1>5, <1>9 DEF Contract!Next, Contract!FailPartly
<1>10. CASE outcome' \in {"crashed", "uncaught"}
  BY <1>5, <1>10 DEF Contract!Next, Contract!Vanish
<1>11. CASE outcome' = "none" /\ Seen' = Seen
  <2>1. Contract!Run("none")
    BY <1>5, <1>11
  <2> QED BY <1>11, <2>1 DEF Contract!Next, Contract!Begin, Seen
<1> QED BY <1>6, <1>7, <1>8, <1>9, <1>10, <1>11

(* A run that finds nothing to do has found what the feed asks for.        *)
LEMMA NothingToDo ==
    ASSUME TypeInv, Start, outcome' = "noop"
    PROVE  Fits(remote, wanted)
<1>1. CASE wanted.chunks = <<>>
  BY <1>1 DEF Start, Fits
<1>2. CASE wanted.chunks # <<>>
  <2> DEFINE reusable == {g.id : g \in {h \in remote.groups : h.name \in DesiredNames}}
  <2>1. /\ GroupsToWrite(remote) = {}
        /\ remote.route = [exists |-> TRUE, enabled |-> wanted.enabled, refs |-> reusable]
    BY <1>2 DEF Start
  <2>2. /\ \A g, h \in remote.groups : g.id = h.id <=> g.name = h.name
        /\ \A g, h \in remote.groups : g.id = h.id => g = h
    BY DEF TypeInv, ObjectInv, Consistent, OnePerId, Known
  <2>3. \A n \in DesiredNames :
            \E g \in remote.groups : g.name = n /\ g.dest = wanted.chunks[n]
    BY <2>1 DEF GroupsToWrite, Named
  <2>4. ASSUME NEW g \in remote.groups, g.id \in reusable
        PROVE  g.name \in DesiredNames /\ g.dest = wanted.chunks[g.name]
    <3>1. g.name \in DesiredNames
      BY <2>2, <2>4
    <3>2. PICK h \in remote.groups : h.name = g.name /\ h.dest = wanted.chunks[g.name]
      BY <2>3, <3>1
    <3> QED BY <2>2, <3>1, <3>2
  <2>5. Range(wanted.chunks) = {wanted.chunks[n] : n \in DesiredNames}
    BY Wanted DEF TypeInv
  <2>6. \A n \in DesiredNames :
            \E g \in remote.groups : g.id \in reusable /\ g.dest = wanted.chunks[n]
    BY <2>3
  <2>7. remote.route.refs = reusable /\ remote.route.exists
        /\ remote.route.enabled = wanted.enabled
    BY <2>1
  <2> HIDE DEF reusable
  <2>8. Destinations(remote, remote.route.refs) = Range(wanted.chunks)
    BY <2>4, <2>5, <2>6, <2>7 DEF Destinations
  <2> QED BY <1>2, <2>7, <2>8 DEF Fits
<1> QED BY <1>1, <1>2

(* Groups and route are as they were when all mutations are undone.        *)
LEMMA AllUndone ==
    ASSUME TypeOK, NEW c \in Controller, c.groups = seen.groups, c.route = seen.route
    PROVE  c = seen
BY DEF TypeOK, Controller

(* A rollback begins: where nothing was done the controller is as it was.  *)
LEMMA RollbackOutcome ==
    ASSUME RunInv, RunInv', wanted' = wanted, seen' = seen, pc # "idle", Rollback,
           Alone' => /\ remote' = remote /\ remote.groups = GroupsWith(Range(mutations))
                     /\ routeDone = "none" => remote.route = seen.route
    PROVE  Contract!Next
<1>1. TypeOK /\ TypeOK' /\ outcome = "none" /\ Seen = seen
  BY DEF RunInv, TypeInv, PlaceInv, Seen
<1>2. CASE mutations = <<>> /\ routeDone = "none"
  <2>1. pc' = "idle" /\ outcome' = "nothing_done" /\ Seen' = remote'
    BY <1>2 DEF Rollback, Finish, Seen
  <2>2. Alone' => remote' = seen
    BY <1>1, <1>2, NothingDone, AllUndone DEF TypeOK
  <2>3. Excused \/ Seen' = Seen
    BY <1>1, <2>1, <2>2 DEF Alone, Excused, TypeOK
  <2> QED BY <1>1, <2>1, <2>3, ContractRun
<1>3. CASE ~(mutations = <<>> /\ routeDone = "none")
  <2>1. pc' # "idle" /\ outcome' = "none" /\ Seen' = Seen
    BY <1>1, <1>3 DEF Rollback, Goto, Seen
  <2> QED BY <1>1, <2>1, ContractRun
<1> QED BY <1>2, <1>3

(* The last step of a rollback.                                            *)
LEMMA LastUndone ==
    ASSUME RunInv, TypeOK', SendUndo, Undone, Alone'
    PROVE  remote' = seen
<1>1. TypeInv /\ TypeOK /\ PlaceInv /\ EffectInv /\ mutations \in Seq(Mutation)
  BY DEF RunInv, TypeInv, TypeOK
<1>2. /\ pc \in {"undoRoute", "undoGroups"} /\ Request(UndoStep, TRUE)
      /\ UNCHANGED <<edited, unseen>>
      /\ Len(mutations) = IF pc = "undoRoute" THEN 0 ELSE 1
  BY DEF SendUndo, Undone
<1>3. Alone /\ remote' = UndoStep
  BY <1>1, <1>2, Requested DEF Alone, TypeOK
<1>4. CASE pc = "undoRoute"
  <2>1. mutations = <<>>
    BY <1>1, <1>2, <1>4
  <2>2. remote'.groups = seen.groups /\ remote'.route = seen.route
    BY <1>1, <1>3, <1>4, <2>1, RouteWritten, NothingDone DEF EffectInv, UndoStep
  <2> QED BY <1>1, <2>2, AllUndone DEF TypeOK
<1>5. CASE pc = "undoGroups"
  <2>1. mutations # <<>> /\ Front(mutations) = <<>>
    <3>1. mutations # <<>>
      BY <1>1, <1>5 DEF PlaceInv
    <3>2. Front(mutations) \in Seq(Mutation) /\ Len(Front(mutations)) = Len(mutations) - 1
      BY <1>1, <3>1, FrontFacts
    <3> QED BY <1>2, <1>5, <3>1, <3>2
  <2>2. /\ remote.groups = GroupsWith(Range(mutations)) /\ remote.route = seen.route
        /\ remote' = UndoMutation(Last(mutations))
    BY <1>1, <1>3, <1>5 DEF EffectInv, UndoStep
  <2>3. /\ remote'.groups = GroupsWith(Range(Front(mutations)))
        /\ remote'.route = remote.route
    BY <1>1, <2>1, <2>2, UndoTakesEffect
  <2>4. remote'.groups = seen.groups /\ remote'.route = seen.route
    BY <2>1, <2>2, <2>3, NothingDone
  <2> QED BY <1>1, <2>4, AllUndone DEF TypeOK
<1> QED BY <1>2, <1>4, <1>5

(* Every step is one of RouterUpdate, or none: one case per action.        *)
LEMMA ContractStep ==
    RunInv /\ RunInv' /\ [Next]_vars => [Contract!Next]_(Contract!vars)
<1> SUFFICES ASSUME RunInv, RunInv', [Next]_vars PROVE [Contract!Next]_(Contract!vars)
  OBVIOUS
<1>1. /\ TypeInv /\ TypeOK /\ TypeOK' /\ PlaceInv /\ PlaceInv'
      /\ EffectInv /\ EffectInv' /\ VerifiedInv
  BY DEF RunInv, TypeInv
<1>2. pc # "idle" => outcome = "none" /\ Seen = seen
  BY <1>1 DEF PlaceInv, Seen
<1>3. pc' # "idle" => outcome' = "none" /\ Seen' = seen'
  BY <1>1 DEF PlaceInv, Seen
<1>4. ASSUME pc # "idle", pc' # "idle", UNCHANGED <<wanted, seen>> PROVE Contract!Next
  BY <1>1, <1>2, <1>3, <1>4, ContractRun
<1>5. CASE Start
  <2>1. /\ outcome # "partial" /\ wanted' = wanted /\ seen' = remote /\ remote' = remote
        /\ Seen = remote /\ Seen' = remote
    BY <1>5 DEF Start, Seen
  <2>2. outcome' = "noop" \/ outcome' = "none"
    BY <1>5 DEF Start, Finish
  <2>3. outcome' = "noop" => Fits(remote, wanted)
    BY <1>1, <1>5, NothingToDo
  <2> QED BY <1>1, <2>1, <2>2, <2>3, ContractRun
<1>6. CASE StartFails \/ DryRun
  <2>1. /\ pc = "idle" /\ pc' = "idle" /\ outcome # "partial"
        /\ outcome' \in {"error", "uncaught", "dry_run"} /\ UNCHANGED <<wanted, remote>>
    BY <1>6 DEF StartFails, DryRun
  <2>2. Seen' = Seen
    BY <2>1 DEF Seen
  <2> QED BY <1>1, <2>1, <2>2, ContractRun
<1>7. CASE \/ DisableRoute \/ WriteGroup \/ GroupsWritten \/ CreatePolicyRoute
           \/ UpdatePolicyRoute \/ Cleanup
  <2>1. pc # "idle" /\ pc' # "idle" /\ UNCHANGED <<wanted, seen>>
    BY <1>7 DEF DisableRoute, WriteGroup, GroupsWritten, CreatePolicyRoute,
       UpdatePolicyRoute, Cleanup, Goto
  <2> QED BY <1>4, <2>1
<1>8. CASE CheckDisabled
  <2>1. /\ pc = "checkDisabled" /\ pc' = "idle" /\ UNCHANGED <<remote, wanted, history>>
        /\ \/ outcome' = "success" /\ remote.route = [seen.route EXCEPT !.enabled = FALSE]
           \/ outcome' = "error"
    BY <1>8 DEF CheckDisabled, Finish
  <2>2. Seen' = remote /\ wanted.chunks = <<>>
    BY <1>1, <2>1 DEF Seen, PlaceInv
  <2>3. CASE outcome' = "success" /\ remote.route = [seen.route EXCEPT !.enabled = FALSE]
    <3>1. remote.route.enabled = FALSE
      BY <1>1, <2>3 DEF TypeOK, Controller, Route
    <3> QED BY <1>1, <1>2, <2>1, <2>2, <2>3, <3>1, ContractRun DEF Fits
  <2>4. CASE outcome' = "error"
    <3>1. Excused \/ Fits(remote, wanted)
      BY <1>1, <2>1, <2>2 DEF EffectInv, Alone, Excused, Fits, TypeOK, history
    <3> QED BY <1>1, <1>2, <2>1, <2>2, <2>4, <3>1, ContractRun
  <2> QED BY <2>1, <2>3, <2>4
<1>9. CASE DisableFails
  <2>1. /\ pc \in {"disable", "checkDisabled"} /\ pc' = "idle" /\ outcome' = "error"
        /\ UNCHANGED <<wanted, edited, unseen>>
        /\ \/ pc = "disable"
              /\ Request(SetRoute([seen.route EXCEPT !.enabled = FALSE]), FALSE)
           \/ pc = "checkDisabled" /\ UNCHANGED <<remote, misled>>
    BY <1>9 DEF DisableFails, Finish
  <2>2. ASSUME Alone' PROVE Alone /\ remote' = remote
    BY <1>1, <2>1, <2>2, Requested DEF Alone, TypeOK
  <2>3. Seen' = remote' /\ wanted.chunks = <<>>
    BY <1>1, <2>1 DEF Seen, PlaceInv
  <2>4. Excused \/ Seen' = Seen \/ Fits(Seen', wanted)
    <3>1. CASE Alone' /\ pc = "disable"
      BY <1>1, <1>2, <2>2, <2>3, <3>1 DEF EffectInv
    <3>2. CASE Alone' /\ pc = "checkDisabled"
      BY <1>1, <2>2, <2>3, <3>2 DEF EffectInv, Fits
    <3>3. CASE ~Alone'
      BY <1>1, <3>3 DEF Alone, Excused, TypeOK
    <3> QED BY <2>1, <3>1, <3>2, <3>3
  <2> QED BY <1>1, <1>2, <2>1, <2>4, ContractRun
<1>10. CASE FindRoute
  <2>1. /\ pc = "findRoute" /\ UNCHANGED <<remote, wanted, seen, history>>
        /\ (~remote.route.exists /\ Rollback) \/ pc' = "verify"
    BY <1>10 DEF FindRoute, Goto
  <2>2. CASE pc' = "verify"
    BY <1>4, <2>1, <2>2
  <2>3. CASE ~remote.route.exists /\ Rollback
    <3>1. ~Alone'
      BY <1>1, <2>1, <2>3 DEF EffectInv, Alone, DesiredRoute, history
    <3> QED BY <2>1, <2>3, <3>1, RollbackOutcome
  <2> QED BY <2>1, <2>2, <2>3
<1>11. CASE Verify
  <2>1. /\ pc = "verify" /\ UNCHANGED <<remote, wanted, seen, history>>
        /\ Rollback \/ pc' = "cleanup"
    BY <1>11 DEF Verify, Goto
  <2>2. CASE pc' = "cleanup"
    BY <1>4, <2>1, <2>2
  <2>3. CASE Rollback
    <3>1. Alone' => /\ remote.groups = GroupsWith(Range(mutations))
                    /\ routeDone = "none" => remote.route = seen.route
      BY <1>1, <2>1 DEF EffectInv, Alone, PlaceInv, history
    <3> QED BY <2>1, <2>3, <3>1, RollbackOutcome
  <2> QED BY <2>1, <2>2, <2>3
<1>12. CASE Commit
  <2>1. /\ pc = "cleanup" /\ pc' = "idle" /\ outcome' = "success"
        /\ UNCHANGED <<remote, wanted, edited>>
    BY <1>12 DEF Commit, Finish, history
  <2>2. edited' = TRUE \/ Fits(remote, wanted)
    <3>1. CASE edited = FALSE
      <4>1. /\ remote.route.exists = TRUE /\ remote.route.enabled = wanted.enabled
            /\ Destinations(remote, remote.route.refs) = Range(wanted.chunks)
        BY <1>1, <2>1, <3>1 DEF VerifiedInv, DesiredRoute
      <4>2. wanted.chunks # <<>>
        BY <1>1, <2>1 DEF PlaceInv
      <4> QED BY <4>1, <4>2 DEF Fits
    <3>2. CASE edited # FALSE
      BY <1>1, <2>1, <3>2 DEF TypeOK
    <3> QED BY <3>1, <3>2
  <2>3. Seen' = remote
    BY <2>1 DEF Seen
  <2> QED BY <1>1, <1>2, <2>1, <2>2, <2>3, ContractRun
<1>13. CASE RequestFails
  <2>1. /\ pc \in {"groups", "route", "findRoute", "verify"}
        /\ UNCHANGED <<wanted, seen, edited>> /\ Rollback
        /\ UNCHANGED <<remote, misled>> \/ Request(Effect, FALSE)
        /\ unseen' = (unseen \/ (pc = "findRoute" /\ remote.route.exists))
    BY <1>13 DEF RequestFails
  <2>2. ASSUME Alone'
        PROVE  Alone /\ remote' = remote /\ ~(pc = "findRoute" /\ remote.route.exists)
    <3>1. misled' = FALSE => misled = FALSE /\ remote' = remote
      BY <1>1, <2>1, Requested DEF TypeOK
    <3>2. unseen' = FALSE => unseen = FALSE /\ ~(pc = "findRoute" /\ remote.route.exists)
      BY <1>1, <2>1 DEF TypeOK
    <3> QED BY <2>1, <2>2, <3>1, <3>2 DEF Alone
  <2>3. ASSUME Alone'
        PROVE  /\ remote' = remote /\ remote.groups = GroupsWith(Range(mutations))
               /\ routeDone = "none" => remote.route = seen.route
    <3>1. pc # "findRoute"
      BY <1>1, <2>2, <2>3 DEF EffectInv, DesiredRoute
    <3> QED BY <1>1, <2>1, <2>2, <2>3, <3>1 DEF EffectInv, PlaceInv
  <2> QED BY <2>1, <2>3, RollbackOutcome
<1>14. CASE SendUndo
  <2>1. pc # "idle" /\ UNCHANGED <<wanted, seen>>
    BY <1>14 DEF SendUndo
  <2>2. CASE Undone
    <3>1. pc' = "idle" /\ outcome' = "rolled_back" /\ Seen' = remote'
      BY <1>14, <2>2 DEF SendUndo, Finish, Seen
    <3>2. Alone' => remote' = seen
      BY <1>1, <1>14, <2>2, LastUndone
    <3>3. Excused \/ Seen' = Seen
      BY <1>1, <1>2, <2>1, <3>1, <3>2 DEF Alone, Excused, TypeOK
    <3> QED BY <1>1, <1>2, <2>1, <3>1, <3>3, ContractRun
  <2>3. CASE ~Undone
    <3>1. pc' # "idle"
      BY <1>14, <2>3 DEF SendUndo, Goto
    <3> QED BY <1>4, <2>1, <3>1
  <2> QED BY <2>2, <2>3
<1>15. CASE UndoFails \/ ReadTimesOut \/ Crash
  <2>1. pc # "idle" /\ wanted' = wanted /\ outcome' \in {"partial", "uncaught", "crashed"}
    BY <1>15 DEF UndoFails, ReadTimesOut, Crash, Finish
  <2> QED BY <1>1, <1>2, <2>1, ContractRun
<1>16. CASE FeedChanges
  <2>1. /\ wanted' \in [enabled : BOOLEAN, chunks : Lists] /\ Seen' = Seen
        /\ UNCHANGED <<misled, edited, unseen>>
        /\ outcome # "partial" /\ outcome' = "none"
    BY <1>16 DEF FeedChanges, history, Seen
  <2>2. Report(outcome) # "partial" /\ Report(outcome') = "none"
    BY <1>1, <2>1, Reports DEF TypeOK, Outcomes, Ends
  <2> QED BY <2>1, <2>2 DEF Contract!Next, Contract!Ask, Report, Seen
<1>17. CASE UserEdits
  <2>1. Seen' \in Controller
    BY <1>1 DEF TypeOK, Seen
  <2>2. edited' = TRUE /\ UNCHANGED <<wanted, outcome>>
    BY <1>17 DEF UserEdits
  <2>3. (misled' \/ unseen') \in BOOLEAN
    BY Zenon
  <2> QED BY <2>1, <2>2, <2>3 DEF Contract!Next, Contract!Edit, Seen
<1>18. CASE OperatorRepairs
  <2>1. /\ outcome = "partial" /\ outcome' = "none"
        /\ UNCHANGED <<wanted, misled, edited, unseen>>
    BY <1>18 DEF OperatorRepairs, history
  <2>2. Report(outcome) = "partial" /\ Report(outcome') = "none"
    BY <2>1, Reports
  <2>3. Seen' \in Controller
    BY <1>1 DEF TypeOK, Seen
  <2> QED BY <2>1, <2>2, <2>3 DEF Contract!Next, Contract!Repair, Report, Seen
<1>19. CASE UNCHANGED vars
  BY <1>19 DEF vars, locals, history, Contract!vars
<1> QED
  BY <1>5, <1>6, <1>7, <1>8, <1>9, <1>10, <1>11, <1>12, <1>13, <1>14, <1>15, <1>16,
     <1>17, <1>18, <1>19
  DEF Next, ServiceStep

(* Runs under any faults, edits and kills are the steps of RouterUpdate.   *)
THEOREM EveryRunIsOneStep == Spec => RunIsOneStep
<1>1. Init => Contract!Init
  <2> SUFFICES ASSUME Init PROVE Contract!Init
    OBVIOUS
  <2>1. /\ Seen \in Controller /\ wanted \in [enabled : BOOLEAN, chunks : Lists]
        /\ (misled \/ unseen) = FALSE /\ edited = FALSE
    BY TypeInit DEF Init, Seen, TypeInv, TypeOK
  <2>2. Report(outcome) = "none"
    BY Reports DEF Init
  <2> QED BY <2>1, <2>2 DEF Contract!Init, Report, Seen
<1> QED BY <1>1, RunAlways, ContractStep, PTL DEF Spec, RunIsOneStep, Contract!Spec

-----------------------------------------------------------------------------
(* The end of a run *)

(* The calls that are left to a run that writes groups or undoes them:     *)
(* writing one may add the call that undoes it.                            *)
Stage == [disable |-> 2, checkDisabled |-> 1, groups |-> 6, route |-> 5, findRoute |-> 4,
          verify |-> 3, undoRoute |-> 2, undoGroups |-> 1, cleanup |-> 1]
CallsLeft ==
    IF pc = "idle" THEN 0
    ELSE Stage[pc] + 2 * (IF pc = "groups" THEN Cardinality(todo) ELSE 0)
         + Len(mutations) + Cardinality(extra)

(* Each step of a run leaves fewer to take, whatever fails, and nobody     *)
(* else gives it more.                                                     *)
RunAdvances ==
    [][pc # "idle" => CallsLeft' < CallsLeft \/ (UserEdits /\ CallsLeft' = CallsLeft)]_vars

(* No name is written twice, and no group is left over twice.              *)
LEMMA WorkCounted ==
    ASSUME TypeInv
    PROVE  /\ IsFiniteSet(todo) /\ Cardinality(todo) \in Nat
           /\ IsFiniteSet(extra) /\ Cardinality(extra) \in 0 .. MaxGroups
           /\ Len(mutations) \in 0 .. MaxGroups
           /\ pc = "groups" => Cardinality(todo) + Len(mutations) <= MaxGroups
<1> DEFINE n == Len(mutations)
           rest == IF pc = "groups" THEN Name \ todo ELSE Name
           f == [i \in 1 .. n |-> mutations[i].group.name]
<1>1. /\ todo \subseteq Name /\ mutations \in Seq(Mutation) /\ MaxGroups \in Nat
      /\ n \in Nat /\ DOMAIN mutations = 1 .. n
  BY BoundsAssumption DEF TypeInv, TypeOK
<1>2. IsFiniteSet(todo) /\ Cardinality(todo) \in Nat
  BY <1>1, NamesCounted, FS_Subset, FS_CardinalityType
<1>3. IsFiniteSet(extra) /\ Cardinality(extra) <= MaxGroups
  <2> DEFINE G == {h \in seen.groups : h.name \notin DesiredNames}
             ids == {g.id : g \in G}
  <2>1. \A g \in G : g.name \in Name
    BY KnownTypes DEF TypeInv, Group
  <2>2. \A g, h \in G : g.name = h.name => g.id = h.id
    BY DEF TypeInv, ObjectInv, Consistent, Known
  <2>3. extra \in SUBSET ids
    BY DEF TypeInv, PlaceInv, ExtraGroups
  <2> HIDE DEF G
  <2>4. IsFiniteSet(ids) /\ Cardinality(ids) <= MaxGroups
    BY <2>1, <2>2, NamesCounted, FewIds
  <2> HIDE DEF ids
  <2>5. IsFiniteSet(extra) /\ Cardinality(extra) <= Cardinality(ids)
    BY <2>3, <2>4, FS_Subset
  <2>6. Cardinality(ids) \in Nat /\ Cardinality(extra) \in Nat
    BY <2>4, <2>5, FS_CardinalityType
  <2> QED BY <1>1, <2>4, <2>5, <2>6
<1>4. IsFiniteSet(1 .. n) /\ Cardinality(1 .. n) = n
  <2>1. 1 \in Int /\ n \in Int
    BY <1>1
  <2>2. IsFiniteSet(1 .. n) /\ Cardinality(1 .. n) = IF 1 > n THEN 0 ELSE n - 1 + 1
    BY <2>1, FS_Interval
  <2> QED BY <1>1, <2>2
<1>5. IsFiniteSet(rest) /\ rest \subseteq Name
  BY NamesCounted, FS_Subset
<1>6. f \in Injection(1 .. n, rest)
  <2>1. \A i \in 1 .. n : mutations[i].group.name \in rest
    <3>1. \A i \in 1 .. n : mutations[i].group.name \in Name
      BY <1>1, KnownTypes DEF TypeInv, Mutation, Group
    <3>2. pc = "groups" => \A i \in 1 .. n : mutations[i].group.name \notin todo
      BY <1>1 DEF TypeInv, WritingInv
    <3> QED BY <3>1, <3>2
  <2>2. \A i, j \in 1 .. n :
            mutations[i].group.name = mutations[j].group.name => i = j
    BY <1>1 DEF TypeInv, ObjectInv
  <2> HIDE DEF n, rest
  <2>3. f \in [1 .. n -> rest]
    BY <2>1
  <2>4. \A i, j \in 1 .. n : f[i] = f[j] => i = j
    BY <2>2
  <2> HIDE DEF f
  <2> QED BY <2>3, <2>4 DEF Injection, IsInjective
<1>7. n <= Cardinality(rest)
  <2> HIDE DEF n, rest, f
  <2> QED BY <1>4, <1>5, <1>6, FS_Injection
<1>8. Cardinality(Name \ todo) = MaxGroups - Cardinality(todo)
  <2>1. Cardinality(Name \ todo) = Cardinality(Name) - Cardinality(Name \cap todo)
    BY NamesCounted, FS_Difference
  <2>2. Name \cap todo = todo
    BY <1>1
  <2> QED BY <2>1, <2>2, NamesCounted
<1>9. Cardinality(extra) \in Nat
  BY <1>3, FS_CardinalityType
<1>10. CASE pc = "groups"
  <2>1. n <= MaxGroups - Cardinality(todo)
    BY <1>7, <1>8, <1>10
  <2> QED BY <1>1, <1>2, <1>3, <1>9, <2>1
<1>11. CASE pc # "groups"
  <2>1. n <= MaxGroups
    BY <1>7, <1>11, NamesCounted
  <2> QED BY <1>1, <1>2, <1>3, <1>9, <1>11, <2>1
<1> QED BY <1>10, <1>11

(* There are never more than three calls to a group, and six.              *)
LEMMA CallsCounted == TypeInv => CallsLeft \in 0 .. 3 * MaxGroups + 6
<1> SUFFICES ASSUME TypeInv PROVE CallsLeft \in 0 .. 3 * MaxGroups + 6
  OBVIOUS
<1>0. \A G, t \in Nat : \A s \in 1 .. 6, l, e \in 0 .. G :
          t + l <= G => s + 2 * t + l + e \in 0 .. 3 * G + 6
  OBVIOUS
<1>1. pc # "idle" => Stage[pc] \in 1 .. 6
  BY DEF Stage, TypeInv, TypeOK
<1>2. MaxGroups \in Nat
  BY BoundsAssumption
<1>3. CASE pc = "idle"
  BY <1>2, <1>3 DEF CallsLeft
<1>4. CASE pc = "groups"
  <2>1. CallsLeft = Stage[pc] + 2 * Cardinality(todo) + Len(mutations) + Cardinality(extra)
    BY <1>4 DEF CallsLeft
  <2>2. /\ Cardinality(todo) \in Nat /\ Len(mutations) \in 0 .. MaxGroups
        /\ Cardinality(extra) \in 0 .. MaxGroups
        /\ Cardinality(todo) + Len(mutations) <= MaxGroups
    BY <1>4, WorkCounted
  <2>3. Stage[pc] \in 1 .. 6
    BY <1>1, <1>4
  <2> QED BY <1>0, <1>2, <2>1, <2>2, <2>3
<1>5. CASE pc \notin {"idle", "groups"}
  <2>1. CallsLeft = Stage[pc] + 2 * 0 + Len(mutations) + Cardinality(extra)
    BY <1>5 DEF CallsLeft
  <2>2. Len(mutations) \in 0 .. MaxGroups /\ Cardinality(extra) \in 0 .. MaxGroups
    BY WorkCounted
  <2>3. Stage[pc] \in 1 .. 6 /\ 0 \in Nat /\ 0 + Len(mutations) <= MaxGroups
    BY <1>1, <1>2, <1>5, <2>2
  <2> QED BY <1>0, <1>2, <2>1, <2>2, <2>3
<1> QED BY <1>3, <1>4, <1>5

(* A step that ends the run, or goes to a later stage with no more to do.  *)
LEMMA RunGoesOn ==
    ASSUME TypeInv, pc # "idle",
           \/ pc' = "idle"
           \/ /\ UNCHANGED <<mutations, extra>>
              /\ pc' # "groups" /\ pc' \in DOMAIN Stage /\ Stage[pc'] < Stage[pc]
    PROVE  CallsLeft' < CallsLeft
<1>1. Stage[pc] \in 1 .. 6 /\ (pc' # "idle" => Stage[pc'] \in 1 .. 6)
  BY DEF Stage, TypeInv, TypeOK
<1> HIDE DEF Stage
<1>2. \E t \in Nat : CallsLeft = Stage[pc] + 2 * t + Len(mutations) + Cardinality(extra)
  <2>1. CASE pc = "groups"
    BY <2>1, WorkCounted DEF CallsLeft
  <2>2. CASE pc # "groups"
    <3>1. CallsLeft = Stage[pc] + 2 * 0 + Len(mutations) + Cardinality(extra)
      BY <2>2 DEF CallsLeft
    <3> QED BY <3>1
  <2> QED BY <2>1, <2>2
<1>3. CASE pc' = "idle"
  <2>1. CallsLeft' = 0
    BY <1>3 DEF CallsLeft
  <2>2. \A s \in 1 .. 6 : \A t, l, e \in Nat : 0 < s + 2 * t + l + e
    OBVIOUS
  <2>3. Len(mutations) \in Nat /\ Cardinality(extra) \in Nat
    BY WorkCounted
  <2> QED BY <1>1, <1>2, <2>1, <2>2, <2>3
<1>4. CASE pc' # "idle"
  <2>1. CallsLeft' = Stage[pc'] + 2 * 0 + Len(mutations) + Cardinality(extra)
    <3>1. Stage[pc]' = Stage[pc']
      BY DEF Stage
    <3> QED BY <1>4, <3>1 DEF CallsLeft
  <2>2. \A s, r \in 1 .. 6 : \A t, l, e \in Nat :
            r < s => r + 2 * 0 + l + e < s + 2 * t + l + e
    OBVIOUS
  <2>3. Len(mutations) \in Nat /\ Cardinality(extra) \in Nat
    BY WorkCounted
  <2>4. Stage[pc'] \in 1 .. 6 /\ Stage[pc] \in 1 .. 6 /\ Stage[pc'] < Stage[pc]
    BY <1>1, <1>4
  <2> QED BY <1>2, <2>1, <2>2, <2>3, <2>4
<1> QED BY <1>3, <1>4

(* Every call of a run of the driver, its rollback and its cleanup is      *)
(* taken from a stock that nothing fills again: of any number of groups, a *)
(* run ends after at most three calls for each, and six.                   *)
THEOREM RunsAdvance == Spec => RunAdvances /\ [](CallsLeft \in 0 .. 3 * MaxGroups + 6)
<1>1. TypeInv /\ [Next]_vars =>
          UNCHANGED vars
          \/ (pc # "idle" => CallsLeft' < CallsLeft \/ (UserEdits /\ CallsLeft' = CallsLeft))
  <2> SUFFICES ASSUME TypeInv, Next, pc # "idle"
               PROVE  CallsLeft' < CallsLeft \/ (UserEdits /\ CallsLeft' = CallsLeft)
    OBVIOUS
  <2>1. CASE Start \/ StartFails \/ DryRun \/ FeedChanges
    BY <2>1 DEF Start, StartFails, DryRun, FeedChanges
  <2>2. CASE OperatorRepairs
    BY <2>2 DEF OperatorRepairs, TypeInv, PlaceInv
  <2>3. CASE CheckDisabled \/ DisableFails \/ Commit \/ UndoFails \/ ReadTimesOut \/ Crash
    <3>1. pc' = "idle"
      BY <2>3 DEF CheckDisabled, DisableFails, Commit, UndoFails, ReadTimesOut, Crash, Finish
    <3> QED BY <3>1, RunGoesOn
  <2>4. CASE DisableRoute
    <3>1. pc = "disable" /\ pc' = "checkDisabled" /\ UNCHANGED <<mutations, extra>>
      BY <2>4 DEF DisableRoute, Goto, locals
    <3> QED BY <3>1, RunGoesOn DEF Stage
  <2>5. CASE WriteGroup
    <3>1. /\ pc = "groups" /\ pc' = "groups" /\ extra' = extra
          /\ todo # {} /\ todo' = todo \ {Min(todo)}
          /\ mutations' = Append(mutations, Undo(NextGroup))
      BY <2>5 DEF WriteGroup
    <3>2. Min(todo) \in todo
      <4>1. todo \subseteq Nat
        BY DEF TypeInv, TypeOK, Name
      <4> QED BY <3>1, <4>1, NextName
    <3>3. Cardinality(todo') = Cardinality(todo) - 1
      BY <3>1, <3>2, WorkCounted, FS_RemoveElement
    <3>4. Len(mutations') = Len(mutations) + 1
      BY <3>1 DEF TypeInv, TypeOK
    <3> QED BY <3>1, <3>3, <3>4, WorkCounted DEF CallsLeft, Stage
  <2>6. CASE GroupsWritten
    <3>1. pc = "groups" /\ pc' \in {"verify", "route"} /\ UNCHANGED <<mutations, extra>>
      BY <2>6 DEF GroupsWritten, Goto, locals
    <3> QED BY <3>1, RunGoesOn DEF Stage
  <2>7. CASE CreatePolicyRoute
    <3>1. pc = "route" /\ pc' = "findRoute" /\ UNCHANGED <<mutations, extra>>
      BY <2>7 DEF CreatePolicyRoute, Goto, locals
    <3> QED BY <3>1, RunGoesOn DEF Stage
  <2>8. CASE UpdatePolicyRoute
    <3>1. pc = "route" /\ pc' = "verify" /\ UNCHANGED <<mutations, extra>>
      BY <2>8 DEF UpdatePolicyRoute, Goto
    <3> QED BY <3>1, RunGoesOn DEF Stage
  <2>9. ASSUME Rollback, pc \in {"groups", "route", "findRoute", "verify"}
        PROVE  CallsLeft' < CallsLeft
    <3>1. pc' = "idle" \/ (pc' \in {"undoGroups", "undoRoute"}
                           /\ UNCHANGED <<mutations, extra>>)
      BY <2>9 DEF Rollback, Finish, Goto, locals
    <3> QED BY <2>9, <3>1, RunGoesOn DEF Stage
  <2>10. CASE FindRoute
    <3>1. CASE remote.route.exists
      <4>1. pc = "findRoute" /\ pc' = "verify" /\ UNCHANGED <<mutations, extra>>
        BY <2>10, <3>1 DEF FindRoute, Goto
      <4> QED BY <4>1, RunGoesOn DEF Stage
    <3> QED BY <2>9, <2>10, <3>1 DEF FindRoute
  <2>11. CASE Verify
    <3>1. pc = "verify"
          /\ (Rollback \/ (pc' = "cleanup" /\ UNCHANGED <<mutations, extra>>))
      BY <2>11 DEF Verify, Goto, locals
    <3>2. CASE pc' = "cleanup" /\ UNCHANGED <<mutations, extra>>
      BY <3>1, <3>2, RunGoesOn DEF Stage
    <3> QED BY <2>9, <3>1, <3>2
  <2>12. CASE RequestFails
    BY <2>9, <2>12 DEF RequestFails
  <2>13. CASE Cleanup
    <3>1. PICK id \in extra : extra' = extra \ {id}
      BY <2>13 DEF Cleanup
    <3>2. pc = "cleanup" /\ pc' = "cleanup" /\ UNCHANGED mutations
      BY <2>13 DEF Cleanup
    <3>3. Cardinality(extra') = Cardinality(extra) - 1
      BY <3>1, WorkCounted, FS_RemoveElement
    <3> QED BY <3>2, <3>3, WorkCounted DEF CallsLeft, Stage
  <2>14. CASE SendUndo
    <3>1. CASE pc' = "idle" \/ (pc = "undoRoute" /\ pc' = "undoGroups"
                                /\ UNCHANGED <<mutations, extra>>)
      BY <3>1, RunGoesOn DEF Stage
    <3>2. CASE /\ pc = "undoGroups" /\ pc' = "undoGroups"
               /\ mutations' = Front(mutations) /\ extra' = extra
      <4>1. Len(mutations') = Len(mutations) - 1
        BY <3>2, FrontFacts DEF TypeInv, TypeOK, PlaceInv
      <4> QED BY <3>2, <4>1, WorkCounted DEF CallsLeft, Stage
    <3> QED BY <2>14, <3>1, <3>2 DEF SendUndo, Finish, Goto
  <2>15. CASE UserEdits
    <3>1. UNCHANGED <<pc, todo, mutations, extra>>
      BY <2>15 DEF UserEdits, locals
    <3> QED BY <2>15, <3>1 DEF CallsLeft
  <2> QED BY <2>1, <2>2, <2>3, <2>4, <2>5, <2>6, <2>7, <2>8, <2>10, <2>11, <2>12,
             <2>13, <2>14, <2>15
          DEF Next, ServiceStep
<1> QED BY <1>1, TypeInit, TypeStep, CallsCounted, PTL DEF Spec, RunAdvances
=============================================================================
