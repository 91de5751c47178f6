------------------------------ MODULE Builder -------------------------------
(***************************************************************************)
(* The pool builder (builder.go, gui_builder.go): the disks on the shelf,  *)
(* the ones ticked, the layouts proposed for them, the layout under work   *)
(* and what `zpool create' makes of its command line.                      *)
(***************************************************************************)
EXTENDS Integers, FiniteSets, SequencesExt

CONSTANTS
    Shelves,   \* bound: sizes of the shelf
    Loose,     \* bound: how many of its disks are ticked one by one
    Typed,     \* bound: what is typed as a dRAID's data disks per group and spares, 0 for nothing
    MaxSteps   \* bound: what the operator does

ASSUME BuilderAssumption ==
    /\ Shelves \subseteq Nat \ {0} /\ Loose \in Nat /\ MaxSteps \in Nat
    /\ Typed \subseteq Nat \X Nat

VARIABLES
    disks,   \* the shelf: disk |-> [bytes, fast, inUse]; a fast disk does not rotate
    chosen,  \* the disks ticked
    vdevs,   \* the layout
    steps

builderVars == <<disks, chosen, vdevs, steps>>

Vdev(kind, role, ds) == [kind |-> kind, role |-> role, disks |-> ds, data |-> 0, spares |-> 0]

Raidz == [raidz1 |-> 1, raidz2 |-> 2, raidz3 |-> 3]
Draid == [draid1 |-> 1, draid2 |-> 2, draid3 |-> 3]
Roles == <<"special", "dedup", "log", "cache", "spare">>
VdevKinds == {"stripe", "mirror"} \cup DOMAIN Raidz \cup DOMAIN Draid
IsDraid(v) == v.kind \in DOMAIN Draid

\* How many members a vdev can lose.
Parity(v) ==
    CASE v.kind = "mirror" -> Len(v.disks) - 1
      [] v.kind \in DOMAIN Raidz -> Raidz[v.kind]
      [] IsDraid(v) -> Draid[v.kind]
      [] OTHER -> 0

OfRole(design, r) == {v \in ToSet(design) : v.role = r}
\* They are collected by a loop over the layout.
WithRole(design, r) ==
    LET list[i \in 0 .. Len(design)] ==
            IF i = 0 THEN <<>>
            ELSE IF design[i].role = r THEN Append(list[i - 1], design[i]) ELSE list[i - 1]
    IN  list[Len(design)]

\* Mutant: the strongest vdev decides.
FaultTolerance_Best(design) == LET ps == {Parity(v) : v \in OfRole(design, "data")}
                               IN  IF ps = {} THEN 0 ELSE CHOOSE p \in ps : \A q \in ps : q <= p

\* The weakest data vdev decides.
FaultTolerance(design) ==
    LET ps == {Parity(v) : v \in OfRole(design, "data")}
    IN  IF ps = {} THEN 0 ELSE CHOOSE p \in ps : \A q \in ps : p <= q

MinDisks(v) == CASE v.kind = "stripe" -> 1 [] v.kind = "mirror" -> 2
                 [] OTHER -> Parity(v) + 1

\* Design.Validate, but for the name.
Validate(design) ==
    /\ OfRole(design, "data") # {}
    /\ \A v \in ToSet(design) :
          /\ Len(v.disks) >= MinDisks(v)
          /\ v.role = "log" => v.kind \in {"stripe", "mirror"}
          /\ v.role \in {"cache", "spare"} => v.kind = "stripe"
          /\ IsDraid(v) =>
                LET n == Len(v.disks) - v.spares
                    g == v.data + Parity(v)
                IN  v.data >= 1 /\ n >= g /\ n % g = 0
          /\ \A d \in ToSet(v.disks) : ~disks[d].inUse
    /\ \A i, j \in DOMAIN design : \A k \in DOMAIN design[i].disks, l \in DOMAIN design[j].disks :
          design[i].disks[k] = design[j].disks[l] => i = j /\ k = l

Bare(v) == [v EXCEPT !.disks = <<>>]

\* The words of the create line: a disk, the word of a kind or of a role.
Emit(v) == (IF v.kind = "stripe" THEN <<>> ELSE <<[is |-> "kind", v |-> Bare(v)]>>)
           \o [i \in DOMAIN v.disks |-> [is |-> "disk", d |-> v.disks[i]]]

Section(design, r) ==
    LET vs == WithRole(design, r)
    IN  (IF vs = <<>> THEN <<>> ELSE <<[is |-> "role", r |-> r]>>)
        \o FlattenSeq([i \in DOMAIN vs |-> Emit(vs[i])])

Argv(design) ==
    LET data == WithRole(design, "data")
    IN  FlattenSeq([i \in DOMAIN data |-> Emit(data[i])])
        \o FlattenSeq([i \in DOMAIN Roles |-> Section(design, Roles[i])])

\* zpool's grammar: a word of a kind starts a vdev, one of a role a section, and
\* every disk joins the vdev before it. That a kind with no disk after it is dropped,
\* and a dRAID without data laid out, is left out: Argv of a candidate writes neither.
Parsed(design, role, open) == [design |-> design, role |-> role, open |-> open]
Word(acc, w) ==
    CASE w.is = "role" -> Parsed(acc.design, w.r, FALSE)
      [] w.is = "kind" -> Parsed(Append(acc.design, [w.v EXCEPT !.role = acc.role]), acc.role, TRUE)
      [] w.is = "disk" /\ acc.open ->
           Parsed([acc.design EXCEPT ![Len(acc.design)].disks = Append(@, w.d)], acc.role, TRUE)
      [] OTHER -> Parsed(Append(acc.design, Vdev("stripe", acc.role, <<w.d>>)), acc.role, TRUE)

ParseSpec(words) ==
    LET parse[i \in 0 .. Len(words)] ==
            IF i = 0 THEN Parsed(<<>>, "data", FALSE) ELSE Word(parse[i - 1], words[i])
    IN  parse[Len(words)].design

\* Mutant: the groups overlap by a disk.
Split_Overlap(ds, k) ==
    [i \in 1 .. k |-> SubSeq(ds, (IF i = 1 THEN 0 ELSE ((i - 1) * Len(ds)) \div k - 1) + 1, (i * Len(ds)) \div k)]

Split(ds, k) ==
    [i \in 1 .. k |-> SubSeq(ds, ((i - 1) * Len(ds)) \div k + 1, (i * Len(ds)) \div k)]

\* The spares and data disks per group of a dRAID of n disks: one spare rather
\* than two or none, and the most data disks that divide it.
DraidLayout(n, parity) ==
    LET fits(s) == {d \in 2 .. 8 : n - s >= d + parity /\ (n - s) % (d + parity) = 0}
        spares == IF fits(1) # {} THEN 1 ELSE IF fits(2) # {} THEN 2 ELSE 0
    IN  IF fits(spares) = {} THEN <<>> ELSE <<Max(fits(spares)), spares>>

\* A set in an order that is total on it.
InOrder(S, before(_, _)) ==
    [i \in 1 .. Cardinality(S) |-> CHOOSE x \in S : Cardinality({y \in S : before(y, x)}) = i - 1]

BySize(ds, S, larger) ==
    InOrder(S, LAMBDA a, b : IF ds[a].bytes = ds[b].bytes THEN a < b
                             ELSE (ds[a].bytes > ds[b].bytes) = larger)

\* The log and cache proposed with rotating data: of the fast disks left over.
Extras(ds, data) ==
    LET fast == BySize(ds, {d \in DOMAIN ds \ data : ds[d].fast /\ ~ds[d].inUse}, FALSE)
    IN  IF fast = <<>> \/ \A d \in data : ds[d].fast THEN <<>>
        ELSE IF Len(fast) = 1 THEN <<Vdev("stripe", "log", fast)>>
        ELSE <<Vdev("mirror", "log", SubSeq(fast, 1, 2))>>
             \o (IF Len(fast) = 2 THEN <<>> ELSE <<Vdev("stripe", "cache", SubSeq(fast, 3, Len(fast)))>>)

\* Pairs; an odd disk out becomes a spare.
Mirrors(os) ==
    [i \in 1 .. Len(os) \div 2 |-> Vdev("mirror", "data", SubSeq(os, 2 * i - 1, 2 * i))]
    \o (IF Len(os) % 2 = 1 THEN <<Vdev("stripe", "spare", <<os[Len(os)]>>)>> ELSE <<>>)

RaidzOf(os, kind, wide) ==
    LET gs == Split(os, (Len(os) + wide - 1) \div wide)
    IN  [i \in DOMAIN gs |-> Vdev(kind, "data", gs[i])]

DraidOf(os) ==
    LET dl == DraidLayout(Len(os), 2)
    IN  <<[Vdev("draid2", "data", os) EXCEPT !.data = dl[1], !.spares = dl[2]]>>

\* What there is to offer for these disks, and the rank of its badge.
Offers(os, big) ==
    LET n == Len(os)
        offer(held, no, rank, vs) == IF held THEN {[no |-> no, rank |-> rank, vdevs |-> vs]} ELSE {}
    IN  offer(n >= 2, 1, IF n <= 4 THEN 0 ELSE 1, Mirrors(os))
        \cup offer(n >= 3, 2, IF n >= 6 \/ big THEN 4 ELSE 0, RaidzOf(os, "raidz1", 8))
        \cup offer(n >= 4, 3, IF n < 6 THEN 3 ELSE 0, RaidzOf(os, "raidz2", 12))
        \cup offer(n >= 6, 4, 3, RaidzOf(os, "raidz3", 15))
        \cup offer(n >= 8 /\ DraidLayout(n, 2) # <<>>, 5, IF n >= 12 THEN 0 ELSE 2, DraidOf(os))
        \cup offer(TRUE, 6, 5, <<Vdev("stripe", "data", os)>>)

Ranked(offers) == InOrder(offers, LAMBDA a, b : a.rank < b.rank \/ (a.rank = b.rank /\ a.no < b.no))

\* The layouts proposed for the ticked disks of a shelf, by badge.
Suggest(ds, data) ==
    LET os == BySize(ds, data, TRUE)
        order == Ranked(Offers(os, ds[os[1]].bytes >= 8))
    IN  IF data = {} THEN <<>> ELSE [i \in DOMAIN order |-> order[i].vdevs \o Extras(ds, data)]

FreeOf(ds) == {d \in DOMAIN ds : ~ds[d].inUse}
Free == FreeOf(disks)

Cands == Suggest(disks, Free \cap chosen)

\* The shelf or the ticks changed: the first candidate is the layout.
Reflow(ds, ticks) ==
    /\ disks' = ds /\ chosen' = ticks
    /\ LET cs == Suggest(ds, FreeOf(ds) \cap ticks) IN vdevs' = IF cs = <<>> THEN <<>> ELSE cs[1]

BuilderInit ==
    /\ \E n \in Shelves, f \in 0 .. Loose, big \in {0, 9} :
          disks = [d \in 1 .. n |-> [bytes |-> big + (d % 3) + 1, fast |-> d > n - f, inUse |-> FALSE]]
    /\ chosen = {} /\ vdevs = <<>> /\ steps = 0

Step == steps < MaxSteps /\ steps' = steps + 1

Toggle ==
    /\ Step
    /\ \E d \in Free :
          /\ d > Len(disks) - Loose
          /\ Reflow(disks, IF d \in chosen THEN chosen \ {d} ELSE chosen \cup {d})

TickAll == Step /\ Reflow(disks, chosen \cup Free)

\* A disk was taken, or given back, before the rescan: its tick is dropped.
Rescan ==
    /\ Step
    /\ \E d \in DOMAIN disks :
          /\ d > Len(disks) - Loose
          /\ LET ds == [disks EXCEPT ![d].inUse = ~@] IN Reflow(ds, chosen \cap FreeOf(ds))

Use == Step /\ (\E c \in ToSet(Cands) : vdevs' = c) /\ UNCHANGED <<disks, chosen>>

\* "Clear" of the shelf.
ClearShelf == Step /\ chosen' = {} /\ vdevs' = <<>> /\ disks' = disks

ClearLayout == Step /\ vdevs' = <<>> /\ UNCHANGED <<disks, chosen>>

RemoveVdev ==
    /\ Step
    /\ \E i \in DOMAIN vdevs : vdevs' = RemoveAt(vdevs, i)
    /\ UNCHANGED <<disks, chosen>>

Unassigned == (Free \cap chosen) \ UNION {ToSet(vdevs[i].disks) : i \in DOMAIN vdevs}

\* A dRAID is laid out as was typed, or, with no data disks per group, of itself.
LaidOut(v, typed) ==
    LET dl == IF IsDraid(v) /\ typed[1] = 0 THEN DraidLayout(Len(v.disks), Parity(v)) ELSE <<>>
        as == IF dl = <<>> THEN typed ELSE dl
    IN  IF IsDraid(v) THEN [v EXCEPT !.data = as[1], !.spares = as[2]] ELSE v

\* The ticked disks that no vdev uses become one vdev of any kind and role.
AddVdev ==
    /\ Step /\ Unassigned # {}
    /\ \E kind \in VdevKinds, role \in ToSet(Roles) \cup {"data"}, typed \in Typed :
          vdevs' = Append(vdevs, LaidOut(Vdev(kind, role, InOrder(Unassigned, <)), typed))
    /\ UNCHANGED <<disks, chosen>>

\* A valid layout was created: its disks are in use, and the ticks are gone.
CreatePool ==
    /\ Step /\ Validate(vdevs)
    /\ LET used == UNION {ToSet(vdevs[i].disks) : i \in DOMAIN vdevs}
       IN  Reflow([d \in DOMAIN disks |-> [disks[d] EXCEPT !.inUse = @ \/ d \in used]], {})

BuilderNext ==
    \/ Toggle \/ TickAll \/ Rescan \/ Use \/ ClearShelf \/ ClearLayout \/ RemoveVdev \/ AddVdev \/ CreatePool

BuilderSpec == BuilderInit /\ [][BuilderNext]_builderVars
-----------------------------------------------------------------------------
(* Properties.                                                             *)

\* A layout as a list of vdevs in the order of the sections, a stripe as the
\* bare disks it is to zpool.
Normal(design) ==
    LET inOrder == WithRole(design, "data") \o FlattenSeq([i \in DOMAIN Roles |-> WithRole(design, Roles[i])])
        bare(v) == IF v.kind # "stripe" THEN <<v>>
                   ELSE [i \in DOMAIN v.disks |-> Vdev("stripe", v.role, <<v.disks[i]>>)]
    IN  FlattenSeq([i \in DOMAIN inOrder |-> bare(inOrder[i])])

Exact(design) == Normal(ParseSpec(Argv(design))) = Normal(design)

\* Every layout that is proposed can be created, from the free disks only, is
\* what its command line builds, and uses every ticked disk (Suggest).
SuggestSound ==
    \A c \in ToSet(Cands) :
        /\ Validate(c) /\ Exact(c)
        /\ Free \cap chosen \subseteq UNION {ToSet(c[i].disks) : i \in DOMAIN c}

\* A vdev with these of its disks lost.
Lives(v, lost) ==
    LET left == ToSet(v.disks) \ lost
    IN  CASE v.kind = "stripe" -> left = ToSet(v.disks)
          [] v.kind = "mirror" -> left # {}
          [] OTHER -> Cardinality(ToSet(v.disks) \cap lost) <= Parity(v)

\* The pool survives the loss of any as many data disks as the summary says,
\* and not of any one more (FaultTolerance).
ToleranceIsExact ==
    Validate(vdevs) =>
        LET data  == OfRole(vdevs, "data")
            all   == UNION {ToSet(v.disks) : v \in data}
            ft    == FaultTolerance(vdevs)
            dies(k) == \E lost \in kSubset(k, all) : \E v \in data : ~Lives(v, lost)
        IN  (ft > 0 => ~dies(ft)) /\ (ft < Cardinality(all) => dies(ft + 1))
=============================================================================
