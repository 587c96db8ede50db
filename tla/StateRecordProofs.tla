-------------------------- MODULE StateRecordProofs --------------------------
(***************************************************************************)
(* The appliance's record survives power cuts and failing transfers, for   *)
(* every number of slots from three, every set of documents and every      *)
(* bound on generations and versions; and the writes that make it up       *)
(* implement AtomicRecord.                                                 *)
(*                                                                         *)
(* The argument.  While the domain serves, the record a boot would read is *)
(* in one copy, the same in the cache and on the medium, and the copy the  *)
(* next commit writes is the other one, which holds less, or in the cache  *)
(* one successor of the record.  A commit is composed from what the cache  *)
(* shows, so that successor has to be on the medium before the next record *)
(* is written over its predecessor: the flush behind a document sees to    *)
(* that, and there is no second adoption.  A document goes to a slot that  *)
(* neither of the two runs: the running slot of the predecessor holds the  *)
(* second newest version, and is not the one reused while there is a third *)
(* slot.                                                                   *)
(***************************************************************************)
EXTENDS StateRecord, TLAPS

USE ZenonT(60)

Copy == {CopyA, CopyB}

\* The copy the commit after r writes, and the one it leaves alone.
NextCopy(r) == ParityCopy(r.gen + 1)
KeptCopy(r) == 3 - ParityCopy(r.gen + 1)

\* What every record that was ever composed is.
Rec(r) ==
  /\ DOMAIN r = {"gen", "id", "owned", "slots", "running"}
  /\ r.gen \in Nat \ {0} /\ r.id \in Identity /\ r.owned \in BOOLEAN
  /\ r.slots \in [Slot -> SUBSET Entry] /\ r.running \subseteq Slot

IsState(r) ==
  /\ Rec(r)
  /\ \A s \in Slot : \A e, f \in r.slots[s] : e = f
  /\ \A s \in r.running :
       /\ r.running = {s} /\ r.slots[s] # {}
       /\ \A e \in r.slots[s] : \A t \in Slot \ {s} : \A f \in r.slots[t] :
            f.version < e.version
  /\ ~r.owned => r.running = {} /\ r.gen = 1
  /\ r.gen = 1 => ~r.owned

\* The records a commit makes from x.
Successor(x, y) ==
  \/ ~x.owned /\ y = Adopted(x)
  \/ /\ x.owned
     /\ \E s \in Slot, v \in Number, d \in Document :
          s \notin x.running /\ ~NotNewest(x, v) /\ y = Recorded(x, s, v, d)

\* A copy that loses to x, or ties with it.
Older(o, x) == \A c \in o : c.id = x.id /\ (c.gen < x.gen \/ c = x)

\* The two copies of a medium: one appliance's, each where its generation puts
\* it, and different generations but for what a mint wrote to both.
Copies(m) ==
  /\ \A c \in Copy : /\ \A x, y \in m[c] : x = y
                     /\ \A x \in m[c] : IsState(x)
                                        /\ (x.gen = 1 \/ ParityCopy(x.gen) = c)
  /\ \A a \in m[CopyA], b \in m[CopyB] :
       a.id = b.id /\ (a.gen = b.gen => a = b)

\* The document r runs is in its slot, in the cache and on the medium.
Whole(r) == RunningMatches(seen, r) /\ RunningMatches(disk, r)

\* The record is x, out of reach of the next commit, which is composed from x
\* or from a successor of it that the cache already shows.
Holds(x) ==
  /\ seen[KeptCopy(x)] = {x} /\ disk[KeptCopy(x)] = {x}
  /\ Older(disk[NextCopy(x)], x)
  /\ \/ Older(seen[NextCopy(x)], x)
     \/ \E y \in seen[NextCopy(x)] :
          seen[NextCopy(x)] = {y} /\ Successor(x, y) /\ Whole(y)
  /\ owner => x.owned
  /\ ~cleared => Whole(x)

\* The record was minted into the one copy that is written next.
Hangs ==
  /\ seen[CopyB] = {} /\ disk[CopyB] = {} /\ ~owner
  /\ \A x \in seen[CopyA] \cup disk[CopyA] : x.running = {}
  /\ \/ seen[CopyA] = disk[CopyA] \/ seen[CopyA] = {}
     \/ \E x \in disk[CopyA], y \in seen[CopyA] : Successor(x, y)

-----------------------------------------------------------------------------
(* The invariant, by where the domain is *)

Serving == {"serve", "document", "document_flush", "commit", "commit_flush"}

Medium ==
  /\ seen = [p \in Place |-> seen[p]] /\ disk = [p \in Place |-> disk[p]]
  /\ Copies(seen) /\ Copies(disk)
  /\ minted \in Identity /\ \A r \in promised : r.gen \in Nat
  /\ pc \in Establishing \cup Serving \cup {"off", "refused"}

\* Bring-up, before and after each of its writes.
BringUp ==
  /\ pc \in {"off", "clear", "overwrite", "mint"} => seen = disk
  /\ pc = "clear_flush" => \A p \in Place \ {ResetRequest} : seen[p] = disk[p]
  /\ pc \in {"overwrite", "overwrite_flush"} => cleared /\ promised = {}
  /\ pc = "overwrite_flush" => erasing /\ \A p \in Place : seen[p] = {}
  /\ pc \in {"mint", "mint_flush"} => promised = {} \/ exposed
  /\ pc = "mint" => \A c \in Copy : disk[c] = {}
  /\ pc = "mint_flush" =>
       \A c \in Copy : seen[c] = {Minted(minted)} /\ disk[c] \subseteq seen[c]

\* What a write of bring-up that failed leaves in the cache.
Refused ==
  pc = "refused" =>
    \/ \A p \in Place \ {ResetRequest} : seen[p] = disk[p]
    \/ /\ erasing /\ cleared /\ promised = {}
       /\ \A p \in Place : seen[p] = {} \/ seen[p] = disk[p]
    \/ /\ promised = {} \/ exposed
       /\ \A c \in Copy : /\ seen[c] \subseteq {Minted(minted)}
                          /\ disk[c] \subseteq seen[c]

Served ==
  pc \in Serving => IF exposed THEN Hangs
                    ELSE \E x \in disk[CopyA] \cup disk[CopyB] : Holds(x)

\* What a demand is composing is a successor of what the cache shows.
Composing ==
  /\ pc \in {"document", "document_flush"} =>
       /\ owner
       /\ \E x \in Decode(seen), s \in Slot, v \in Number, d \in Document :
            /\ work = [slot |-> {s}, doc |-> {d},
                       record |-> {Recorded(x, s, v, d)}]
            /\ s \notin x.running /\ ~NotNewest(x, v) /\ x.owned
            /\ \A r \in Decode(disk) : s \notin r.running
            /\ pc = "document_flush" => seen[SlotSector(s)] = {d}
  /\ pc = "commit" =>
       \E x \in Decode(disk), y \in work.record :
         /\ Decode(seen) = {x} /\ work.record = {y}
         /\ Successor(x, y) /\ Whole(y) /\ (exposed => ~x.owned)
  /\ pc = "commit_flush" =>
       \E y \in Decode(seen) :
         /\ work.record = {y} /\ seen[ParityCopy(y.gen)] = {y} /\ Whole(y)
         /\ y.owned /\ y.gen > 1

IInv == /\ Medium /\ BringUp /\ Refused /\ Served /\ Composing
        /\ PromisedSurvives /\ RunningIsWhole

-----------------------------------------------------------------------------
(* Records *)

\* The copies a record and its successor go to.
LEMMA CopyFacts ==
  ASSUME NEW g \in Nat
  PROVE  /\ ParityCopy(g) \in Copy
         /\ ParityCopy(g + 1) = 3 - ParityCopy(g)
         /\ ParityCopy(g + 2) = ParityCopy(g)
         /\ ParityCopy(2) = CopyA
  BY SMTT(60) DEF ParityCopy, Copy, CopyA, CopyB

\* A minted record is one.
LEMMA MintedIsState ==
  ASSUME NEW k \in Identity
  PROVE  /\ IsState(Minted(k)) /\ Minted(k).gen = 1
         /\ Minted(k).running = {}
  BY SMTT(60) DEF IsState, Minted, Rec

\* What an adoption changes.
LEMMA AdoptedIs ==
  ASSUME NEW x, IsState(x), NEW y, y = Adopted(x)
  PROVE  /\ Rec(y) /\ y.gen = x.gen + 1 /\ y.id = x.id /\ y.owned
         /\ y.slots = x.slots /\ y.running = x.running
  <1>1. /\ DOMAIN y = DOMAIN x /\ y.gen = x.gen + 1 /\ y.id = x.id
        /\ y.slots = x.slots /\ y.running = x.running
    BY DEF IsState, Rec, Adopted
  <1>2. y.owned = TRUE
    BY DEF IsState, Rec, Adopted
  <1>3. y.owned /\ y.owned \in BOOLEAN
    BY <1>2
  <1> QED BY SMTT(60), <1>1, <1>3 DEF IsState, Rec

\* What a document changes.
LEMMA RecordedIs ==
  ASSUME NEW x, IsState(x), NEW s \in Slot, NEW v \in Number, NEW d \in Document,
         NEW y, y = Recorded(x, s, v, d)
  PROVE  /\ Rec(y) /\ y.gen = x.gen + 1 /\ y.id = x.id
         /\ y.owned <=> x.owned
         /\ y.running = {s}
         /\ y.slots[s] = {[version |-> v, doc |-> d]}
         /\ \A t \in Slot \ {s} : y.slots[t] = x.slots[t]
  <1>1. /\ DOMAIN y = DOMAIN x /\ y.gen = x.gen + 1 /\ y.id = x.id
        /\ y.running = {s}
        /\ y.slots = [x.slots EXCEPT ![s] = {[version |-> v, doc |-> d]}]
    BY DEF IsState, Rec, Recorded
  <1>2. y.owned = x.owned
    BY DEF IsState, Rec, Recorded
  <1>3. y.slots \in [Slot -> SUBSET Entry]
    BY SMTT(60), <1>1 DEF IsState, Rec, Entry
  <1>4. /\ y.slots[s] = {[version |-> v, doc |-> d]}
        /\ \A t \in Slot \ {s} : y.slots[t] = x.slots[t]
    BY <1>1 DEF IsState, Rec
  <1> QED BY SMTT(60), <1>1, <1>2, <1>3, <1>4 DEF IsState, Rec

\* So is the successor of one, of the same identity, and it has an owner.
LEMMA SuccessorIsState ==
  ASSUME NEW x, IsState(x), NEW y, Successor(x, y)
  PROVE  /\ IsState(y) /\ y.gen = x.gen + 1 /\ y.id = x.id /\ y.owned
         /\ ~x.owned => y.running = {}
  <1>1. CASE ~x.owned /\ y = Adopted(x)
    BY SMTT(60), <1>1, AdoptedIs DEF IsState, Rec
  <1>2. ASSUME x.owned, NEW s \in Slot, NEW v \in Number, NEW d \in Document,
               s \notin x.running, ~NotNewest(x, v), y = Recorded(x, s, v, d)
        PROVE  IsState(y) /\ y.gen = x.gen + 1 /\ y.id = x.id /\ y.owned
    <2>1. \A t \in Slot : \A f \in x.slots[t] : f.version < v
      <3> SUFFICES ASSUME NEW t \in Slot, NEW f \in x.slots[t]
                   PROVE  f.version < v
        OBVIOUS
      <3>1. f.version \in Nat /\ v \in Nat
        BY SMTT(60), VersionAssumption DEF IsState, Rec, Entry, Number
      <3> QED BY SMTT(60), <1>2, <3>1 DEF NotNewest
    <2>2. /\ Rec(y) /\ y.gen = x.gen + 1 /\ y.id = x.id /\ y.owned
          /\ y.running = {s} /\ y.slots[s] = {[version |-> v, doc |-> d]}
          /\ \A t \in Slot \ {s} : y.slots[t] = x.slots[t]
      BY SMTT(60), <1>2, RecordedIs
    <2>3. \A t \in Slot : \A e, f \in y.slots[t] : e = f
      BY SMTT(60), <2>2 DEF IsState
    <2>4. \A e \in y.slots[s] : \A t \in Slot \ {s} : \A f \in y.slots[t] :
            f.version < e.version
      BY SMTT(60), <2>1, <2>2
    <2>5. y.gen # 1
      BY SMTT(60), <2>2 DEF IsState, Rec
    <2> QED BY <2>2, <2>3, <2>4, <2>5 DEF IsState
  <1> QED BY <1>1, <1>2 DEF Successor

\* The slot reused is not the running one.
LEMMA ReuseIsFree ==
  ASSUME NEW y, IsState(y), NEW s \in Slot, NextForReuse(y, s)
  PROVE  s \notin y.running
  BY DEF IsState, NextForReuse

\* Nor is it the one its predecessor runs.
LEMMA ReuseSparesPredecessor ==
  ASSUME NEW x, IsState(x), x.owned, NEW y, Successor(x, y),
         NEW s \in Slot, NextForReuse(y, s)
  PROVE  s \notin x.running
  <1>1. PICK z \in Slot, v \in Number, d \in Document :
          z \notin x.running /\ y = Recorded(x, z, v, d)
    BY DEF Successor
  <1>2. /\ y.running = {z} /\ y.slots[z] = {[version |-> v, doc |-> d]}
        /\ \A t \in Slot \ {z} : y.slots[t] = x.slots[t]
    BY SMTT(60), <1>1, RecordedIs
  <1> SUFFICES ASSUME s \in x.running PROVE FALSE
    OBVIOUS
  <1>3. s # z /\ x.slots[s] # {} /\ y.slots[s] = x.slots[s]
    BY <1>1, <1>2 DEF IsState
  <1>4. \A t \in Slot : y.slots[t] # {}
    BY <1>3 DEF NextForReuse
  <1>5. PICK t \in Slot : t # s /\ t # z
    BY SMTT(60), SlotAssumption DEF Slot
  <1>6. PICK e \in x.slots[s], f \in x.slots[t] : e.version <= f.version
    BY SMTT(60), <1>2, <1>3, <1>4, <1>5 DEF NextForReuse
  <1>7. f.version < e.version
    BY <1>5, <1>6 DEF IsState
  <1>8. e.version \in Int /\ f.version \in Int
    BY SMTT(60), <1>6 DEF IsState, Rec, Entry, Number
  <1> QED BY SMTT(60), <1>6, <1>7, <1>8

-----------------------------------------------------------------------------
(* Copies *)

\* What a boot reads is one of the copies, and the other one loses to it.
LEMMA DecodeIsNewest ==
  ASSUME NEW m, Copies(m), NEW r \in Decode(m)
  PROVE  /\ IsState(r) /\ Decode(m) = {r}
         /\ Older(m[CopyA], r) /\ Older(m[CopyB], r)
         /\ m[CopyA] = {r} \/ m[CopyB] = {r}
  <1>1. \A c \in Copy : \A x \in m[c] : x.gen \in Nat
    BY DEF Copies, IsState, Rec
  <1> QED BY SMTT(60), <1>1 DEF Copies, Decode, Older, Copy

\* A boot reads nothing only where there is nothing.
LEMMA DecodeNothing ==
  ASSUME NEW m, Decode(m) = {}
  PROVE  m[CopyA] = {} /\ m[CopyB] = {}
  BY DEF Decode

\* A record in one copy, over a copy that loses to it.
LEMMA DecodeHeld ==
  ASSUME NEW m, Copies(m), NEW c \in Copy, NEW x, m[c] = {x},
         Older(m[3 - c], x)
  PROVE  Decode(m) = {x}
  <1>0. \A k \in Copy : \A y \in m[k] : y.gen \in Nat
    BY DEF Copies, IsState, Rec
  <1>1. CASE c = CopyA
    <2>1. m[CopyA] = {x} /\ Older(m[CopyB], x)
      BY SMTT(60), <1>1 DEF CopyA, CopyB
    <2> QED BY SMTT(60), <1>0, <2>1 DEF Decode, Older, Copy
  <1>2. CASE c = CopyB
    <2>1. m[CopyB] = {x} /\ Older(m[CopyA], x)
      BY SMTT(60), <1>2 DEF CopyA, CopyB
    <2>2. \A y, z \in m[CopyA] : y = z
      BY DEF Copies, Copy
    <2> QED BY <1>0, <2>1, <2>2 DEF Decode, Older, Copy
  <1> QED BY <1>1, <1>2 DEF Copy

\* A record a boot reads is in the copy the next commit leaves alone, or it is
\* what a mint left in the other one alone.
LEMMA HeldOrHanging ==
  ASSUME NEW m, Copies(m), NEW r \in Decode(m), m[KeptCopy(r)] # {r}
  PROVE  m[CopyA] = {r} /\ m[CopyB] = {} /\ r.gen = 1
  <1>1. PICK c \in Copy : m[c] = {r}
    BY DecodeIsNewest DEF Copy
  <1>2. r.gen \in Nat /\ (r.gen = 1 \/ ParityCopy(r.gen) = c)
    BY <1>1 DEF Copies, IsState, Rec
  <1>3. r.gen = 1
    BY SMTT(60), <1>1, <1>2, CopyFacts DEF KeptCopy, Copy, CopyA, CopyB
  <1>4. KeptCopy(r) = CopyB
    BY SMTT(60), <1>3, CopyFacts DEF KeptCopy, CopyA, CopyB
  <1>5. m[CopyA] = {r}
    BY <1>1, <1>4 DEF Copy
  <1>6. ASSUME NEW b \in m[CopyB] PROVE FALSE
    <2>1. b.gen = 1 \/ (b.gen # 1 /\ b.gen \in Nat /\ b.gen > 0)
      BY SMTT(60), <1>6 DEF Copies, IsState, Rec, Copy
    <2>2. Older(m[CopyB], r) BY DecodeIsNewest
    <2>3. b = r
      BY SMTT(60), <1>3, <1>6, <2>1, <2>2 DEF Older
    <2> QED BY <1>4, <1>6, <2>3 DEF Copies, Copy
  <1> QED BY <1>3, <1>5, <1>6

\* The places are apart from each other.
LEMMA Layout ==
  /\ Copy \subseteq Place /\ ResetRequest \in Place \ Copy
  /\ \A s \in Slot : SlotSector(s) \in Place \ (Copy \cup {ResetRequest})
  /\ \A s, t \in Slot : SlotSector(s) = SlotSector(t) => s = t
  BY SMTT(60), SlotAssumption
     DEF Copy, CopyA, CopyB, Place, ResetRequest, SlotSector, Slot

\* The two copies of a record, and those of its successor.
LEMMA KeptAndNext ==
  ASSUME NEW x, IsState(x)
  PROVE  /\ KeptCopy(x) \in Copy /\ NextCopy(x) \in Copy
         /\ KeptCopy(x) # NextCopy(x) /\ 3 - KeptCopy(x) = NextCopy(x)
         /\ Copy = {KeptCopy(x), NextCopy(x)}
         /\ \A y : y.gen = x.gen + 1 =>
              /\ KeptCopy(y) = NextCopy(x) /\ NextCopy(y) = KeptCopy(x)
              /\ ParityCopy(y.gen) = NextCopy(x)
  <1>1. x.gen \in Nat BY DEF IsState, Rec
  <1>2. PICK g \in Nat : g = x.gen BY <1>1
  <1>3. /\ ParityCopy(g + 1) \in Copy
        /\ ParityCopy((g + 1) + 1) = 3 - ParityCopy(g + 1)
    BY SMTT(60), <1>2, CopyFacts
  <1> QED BY SMTT(60), <1>2, <1>3 DEF KeptCopy, NextCopy, Copy, CopyA, CopyB

\* What is said of the copies is said of nothing else on a medium.
LEMMA CopiesSame ==
  ASSUME NEW m, NEW n, Copies(m), \A c \in Copy : n[c] = m[c]
  PROVE  Copies(n) /\ Decode(n) = Decode(m)
  BY DEF Copies, Decode, Copy

\* A copy that is lost leaves the other as it was.
LEMMA CopiesLess ==
  ASSUME NEW m, NEW n, Copies(m), \A c \in Copy : n[c] = m[c] \/ n[c] = {}
  PROVE  /\ Copies(n)
         /\ \/ Decode(n) = Decode(m)
            \/ \E r \in Decode(m) : \A x \in Decode(n) :
                 x.id = r.id /\ x.gen < r.gen
  <1>1. Copies(n)
    BY DEF Copies, Copy
  <1>2. CASE Decode(m) = {}
    <2>1. m[CopyA] = {} /\ m[CopyB] = {} BY <1>2, DecodeNothing
    <2>2. n[CopyA] = {} /\ n[CopyB] = {} BY <2>1 DEF Copy
    <2>3. Decode(n) = {} BY <2>2 DEF Decode
    <2> QED BY <1>1, <1>2, <2>3
  <1>3. ASSUME NEW r \in Decode(m), Decode(n) # Decode(m)
        PROVE  \A x \in Decode(n) : x.id = r.id /\ x.gen < r.gen
    <2> SUFFICES ASSUME NEW x \in Decode(n)
                 PROVE  x.id = r.id /\ x.gen < r.gen
      OBVIOUS
    <2>1. x \in m[CopyA] \cup m[CopyB]
      BY SMTT(60), <1>1, DecodeIsNewest DEF Copy
    <2>2. x # r
      BY <1>1, <1>3, DecodeIsNewest
    <2> QED BY SMTT(60), <2>1, <2>2, DecodeIsNewest DEF Older
  <1> QED BY <1>1, <1>2, <1>3

\* What a mint wrote, to one copy or to both.
LEMMA CopiesMinted ==
  ASSUME NEW m, NEW k \in Identity, \A c \in Copy : m[c] \subseteq {Minted(k)}
  PROVE  Copies(m) /\ (Decode(m) = {} \/ Decode(m) = {Minted(k)})
  BY MintedIsState DEF Copies, Decode, Copy

\* A successor written beside its record is what a boot reads.
LEMMA CopiesAhead ==
  ASSUME NEW m, NEW n, Copies(m), NEW x, IsState(x), NEW y, Successor(x, y),
         m[KeptCopy(x)] = {x}, n[KeptCopy(x)] = {x}, n[NextCopy(x)] = {y}
  PROVE  Copies(n) /\ Decode(n) = {y}
  <1>0. x.gen \in Nat BY DEF IsState, Rec
  <1>1. /\ IsState(y) /\ y.gen = x.gen + 1 /\ y.id = x.id
        /\ x.gen \in Nat
    BY <1>0, SuccessorIsState
  <1>2. /\ KeptCopy(x) \in Copy /\ NextCopy(x) \in Copy
        /\ Copy = {KeptCopy(x), NextCopy(x)}
        /\ 3 - NextCopy(x) = KeptCopy(x)
        /\ ParityCopy(y.gen) = NextCopy(x)
    BY SMTT(60), <1>1, KeptAndNext DEF Copy, CopyA, CopyB
  <1>3. x.gen = 1 \/ ParityCopy(x.gen) = KeptCopy(x)
    BY <1>2 DEF Copies
  <1>4. \A c \in Copy : /\ \A u, v \in n[c] : u = v
                        /\ \A u \in n[c] : IsState(u)
                              /\ (u.gen = 1 \/ ParityCopy(u.gen) = c)
    BY SMTT(60), <1>1, <1>2, <1>3
  <1>5. \A a \in n[CopyA], b \in n[CopyB] :
          a.id = b.id /\ (a.gen = b.gen => a = b)
    BY SMTT(60), <1>1, <1>2 DEF Copy
  <1>6. Copies(n)
    BY <1>4, <1>5 DEF Copies
  <1>7. Older(n[3 - NextCopy(x)], y)
    BY SMTT(60), <1>1, <1>2 DEF Older
  <1> QED BY <1>2, <1>6, <1>7, DecodeHeld

-----------------------------------------------------------------------------
(* Steps: what each leaves, and how the record a boot would read moves *)

\* The record a boot would read stays, is minted, is followed by a successor,
\* or is lost where it may be.
Moves ==
  \/ Decode(disk)' = Decode(disk)
  \/ Decode(disk) = {} /\ \E k \in Identity : Decode(disk)' = {Minted(k)}
  \/ \E x \in Decode(disk), y \in Decode(disk)' :
       Successor(x, y) /\ Decode(disk)' = {y}
  \/ /\ erasing \/ exposed
     /\ \E r \in Decode(disk) : \A x \in Decode(disk)' :
          x.id = r.id /\ x.gen < r.gen

\* The domain serves, and the record is out of the next commit's reach.
LEMMA HeldIs ==
  ASSUME IInv, pc \in Serving, ~exposed
  PROVE  \E x : /\ IsState(x) /\ Holds(x) /\ Decode(disk) = {x}
                /\ \/ Decode(seen) = {x} /\ Older(seen[NextCopy(x)], x)
                   \/ \E y : /\ Decode(seen) = {y} /\ seen[NextCopy(x)] = {y}
                             /\ Successor(x, y) /\ Whole(y)
  <1>1. PICK x \in disk[CopyA] \cup disk[CopyB] : Holds(x)
    BY DEF IInv, Served
  <1>2. Copies(disk) /\ Copies(seen)
    BY DEF IInv, Medium
  <1>3. IsState(x)
    BY <1>2 DEF Copies, Copy
  <1>4. /\ KeptCopy(x) \in Copy /\ 3 - KeptCopy(x) = NextCopy(x)
    BY <1>3, KeptAndNext
  <1>5. Decode(disk) = {x}
    BY SMTT(60), <1>1, <1>2, <1>4, DecodeHeld DEF Holds
  <1>6. CASE Older(seen[NextCopy(x)], x)
    BY <1>1, <1>2, <1>3, <1>4, <1>5, <1>6, DecodeHeld DEF Holds
  <1>7. ASSUME NEW y, seen[NextCopy(x)] = {y}, Successor(x, y), Whole(y)
        PROVE  Decode(seen) = {y}
    BY SMTT(60), <1>1, <1>2, <1>3, <1>7, CopiesAhead DEF Holds
  <1> QED BY <1>1, <1>3, <1>5, <1>6, <1>7 DEF Holds

\* A step after which it is so.
LEMMA ServingStep ==
  ASSUME Medium', pc' \in Serving, ~exposed', Composing',
         NEW x, IsState(x), Holds(x)',
         \A r \in promised' :
           x.id = r.id /\ x.gen >= r.gen /\ (r.owned => x.owned)
  PROVE  IInv' /\ Decode(disk)' = {x}
  <1>1. /\ KeptCopy(x) \in Copy /\ 3 - KeptCopy(x) = NextCopy(x)
    BY KeptAndNext
  <1>2. /\ Copies(disk') /\ disk'[KeptCopy(x)] = {x}
        /\ Older(disk'[NextCopy(x)], x)
        /\ ~cleared' => RunningMatches(disk', x)
    BY DEF Medium, Holds, Whole
  <1>3. Decode(disk') = {x}
    BY <1>1, <1>2, DecodeHeld
  <1>4. Served'
    BY <1>1, <1>2 DEF Served, Copy
  <1>5. PromisedSurvives' /\ RunningIsWhole'
    BY <1>2, <1>3 DEF PromisedSurvives, RunningIsWhole
  <1>6. BringUp' /\ Refused'
    BY DEF BringUp, Refused, Serving
  <1> QED BY <1>3, <1>4, <1>5, <1>6 DEF IInv

\* A step after which the record hangs in the copy written next.
LEMMA HangingStep ==
  ASSUME Medium', pc' \in Serving, exposed', Composing', Hangs'
  PROVE  IInv'
  <1>1. \A r \in Decode(disk') : r.running = {}
    BY DEF Hangs, Decode
  <1>2. PromisedSurvives' /\ RunningIsWhole' /\ Served'
    BY <1>1 DEF PromisedSurvives, RunningIsWhole, RunningMatches, Served
  <1>3. BringUp' /\ Refused'
    BY DEF BringUp, Refused, Serving
  <1> QED BY <1>2, <1>3 DEF IInv

\* A step of bring-up that leaves the copies and the documents of the medium
\* as they were.
LEMMA SameRecord ==
  ASSUME IInv, \A p \in Place \ {ResetRequest} : disk'[p] = disk[p],
         promised' = promised \/ promised' = {}, exposed' = exposed,
         cleared' = cleared \/ cleared'
  PROVE  /\ Copies(disk') /\ Decode(disk') = Decode(disk)
         /\ PromisedSurvives' /\ RunningIsWhole'
  <1>1. Copies(disk') /\ Decode(disk') = Decode(disk)
    BY CopiesSame, Layout DEF IInv, Medium
  <1>2. PromisedSurvives'
    BY <1>1 DEF IInv, PromisedSurvives
  <1>3. \A r \in Decode(disk) : \A s \in r.running :
          disk'[SlotSector(s)] = disk[SlotSector(s)]
    <2>1. \A r \in Decode(disk) : IsState(r)
      BY DecodeIsNewest DEF IInv, Medium
    <2> QED BY <2>1, Layout DEF IsState, Rec
  <1>4. RunningIsWhole'
    BY SMTT(60), <1>1, <1>3 DEF IInv, RunningIsWhole, RunningMatches
  <1> QED BY <1>1, <1>2, <1>4

-----------------------------------------------------------------------------
(* The device *)

\* A node that is off has nothing in a cache.
LEMMA OffStep ==
  ASSUME pc' = "off", seen' = disk', disk' = [p \in Place |-> disk'[p]],
         Copies(disk'), minted' \in Identity, \A r \in promised' : r.gen \in Nat,
         PromisedSurvives', RunningIsWhole'
  PROVE  IInv'
  BY DEF IInv, Medium, BringUp, Refused, Served, Composing, Serving,
         Establishing

\* A power cut takes away the successor in the cache, and no record but one
\* that may be lost.
LEMMA PowerCutIInv == ASSUME IInv, PowerCut PROVE IInv' /\ Moves
  <1>1. /\ \A p \in Place : disk'[p] = disk[p] \/ disk'[p] = {}
        /\ \A p \in Place : seen[p] = disk[p] => disk'[p] = disk[p]
        /\ disk'[ResetRequest] = disk[ResetRequest]
    BY Layout DEF PowerCut
  <1>2. /\ disk' = [p \in Place |-> disk'[p]] /\ seen' = disk' /\ pc' = "off"
        /\ UNCHANGED <<minted, promised, cleared, exposed>> /\ pc # "off"
    BY DEF PowerCut
  <1>3. minted \in Identity /\ Copies(disk) /\ Copies(seen)
        /\ (\A r \in promised : r.gen \in Nat)
        /\ pc \in Establishing \cup Serving \cup {"off", "refused"}
    BY DEF IInv, Medium
  <1>4. CASE \A p \in Place \ {ResetRequest} : seen[p] = disk[p]
    <2>1. \A p \in Place \ {ResetRequest} : disk'[p] = disk[p]
      BY <1>1, <1>4
    <2> QED BY <1>2, <1>3, <2>1, SameRecord, OffStep DEF Moves
  <1>5. CASE /\ erasing /\ cleared /\ promised = {}
    <2>1. \A c \in Copy : disk'[c] = disk[c] \/ disk'[c] = {}
      BY <1>1, Layout
    <2>2. PromisedSurvives' /\ RunningIsWhole'
      BY <1>2, <1>5 DEF PromisedSurvives, RunningIsWhole
    <2>3. Copies(disk') /\ Moves
      BY <1>3, <1>5, <2>1, CopiesLess DEF Moves
    <2> QED BY <1>2, <1>3, <2>2, <2>3, OffStep
  <1>6. CASE /\ promised = {} \/ exposed
             /\ \A c \in Copy : /\ seen[c] \subseteq {Minted(minted)}
                                /\ disk[c] \subseteq seen[c]
    <2>1. \A c \in Copy : disk'[c] = disk[c]
      <3> SUFFICES ASSUME NEW c \in Copy PROVE disk'[c] = disk[c]
        OBVIOUS
      <3>1. seen[c] = disk[c] \/ disk[c] = {}
        BY <1>6
      <3> QED BY <1>1, <3>1, Layout
    <2>2. Copies(disk') /\ Decode(disk') = Decode(disk)
      BY <1>3, <2>1, CopiesSame
    <2>3. \A r \in Decode(disk') : r.running = {}
      BY SMTT(60), <1>3, <1>6, <2>2, CopiesMinted, MintedIsState
    <2>4. PromisedSurvives' /\ RunningIsWhole'
      BY <1>2, <1>6, <2>3 DEF PromisedSurvives, RunningIsWhole, RunningMatches
    <2> QED BY <1>2, <1>3, <2>2, <2>4, OffStep DEF Moves
  <1>7. CASE pc \in Serving /\ exposed
    <2>1. \A c \in Copy : disk'[c] = disk[c] \/ disk'[c] = {}
      BY <1>1, Layout
    <2>2. Copies(disk') /\ Moves
      BY <1>3, <1>7, <2>1, CopiesLess DEF Moves
    <2>3. \A r \in Decode(disk') : r.running = {}
      <3>1. Hangs BY <1>7 DEF IInv, Served
      <3> QED BY <2>1, <3>1 DEF Hangs, Decode, Copy
    <2>4. PromisedSurvives' /\ RunningIsWhole'
      BY <1>2, <1>7, <2>3 DEF PromisedSurvives, RunningIsWhole, RunningMatches
    <2> QED BY <1>2, <1>3, <2>2, <2>4, OffStep
  <1>8. CASE pc \in Serving /\ ~exposed
    <2>1. PICK x : IsState(x) /\ Holds(x) /\ Decode(disk) = {x}
      BY <1>8, HeldIs
    <2>2. /\ KeptCopy(x) \in Copy /\ NextCopy(x) \in Copy
          /\ 3 - KeptCopy(x) = NextCopy(x)
      BY <2>1, KeptAndNext
    <2>3. disk'[KeptCopy(x)] = {x} /\ Older(disk'[NextCopy(x)], x)
      BY <1>1, <2>1, <2>2, Layout DEF Holds, Older
    <2>4. \A c \in Copy : disk'[c] = disk[c] \/ disk'[c] = {}
      BY <1>1, Layout
    <2>5. Copies(disk')
      BY <1>3, <2>4, CopiesLess
    <2>6. Decode(disk') = Decode(disk)
      BY <2>1, <2>2, <2>3, <2>5, DecodeHeld
    <2>7. PromisedSurvives'
      BY <1>2, <2>6 DEF IInv, PromisedSurvives
    <2>8. RunningIsWhole'
      <3>1. x.running \subseteq Slot BY <2>1 DEF IsState, Rec
      <3>2. ASSUME ~cleared, NEW s \in x.running, NEW e \in x.slots[s]
            PROVE  disk'[SlotSector(s)] = {e.doc}
        <4>1. seen[SlotSector(s)] = {e.doc} /\ disk[SlotSector(s)] = {e.doc}
          BY <2>1, <3>2 DEF Holds, Whole, RunningMatches
        <4>2. SlotSector(s) \in Place
          BY <3>1, <3>2, Layout
        <4> QED BY <1>1, <4>1, <4>2
      <3> QED BY <1>2, <2>1, <2>6, <3>2 DEF RunningIsWhole, RunningMatches
    <2> QED BY <1>2, <1>3, <2>5, <2>6, <2>7, <2>8, OffStep DEF Moves
  <1> QED BY <1>2, <1>3, <1>4, <1>5, <1>6, <1>7, <1>8
          DEF IInv, BringUp, Refused, Establishing

\* A document that is in the cache and on the medium is not touched by a write
\* back.
LEMMA WholeWrittenBack ==
  ASSUME IInv, NEW p \in Place, WriteBack(p), NEW r, IsState(r), Whole(r)
  PROVE  Whole(r)'
  <1>1. \A q \in Place : disk'[q] = disk[q] \/ disk'[q] = seen[q]
    BY DEF WriteBack, IInv, Medium
  <1>2. \A s \in r.running : SlotSector(s) \in Place
    BY Layout DEF IsState, Rec
  <1> QED BY <1>1, <1>2 DEF Whole, RunningMatches, WriteBack

\* What a demand is composing stays what it was under a write back that leaves
\* a boot the record it had, or gives it the one the cache shows.
LEMMA ComposingWrittenBack ==
  ASSUME IInv, NEW p \in Place, WriteBack(p),
         Decode(disk') = Decode(disk) \/ Decode(disk') = Decode(seen)
  PROVE  Composing'
  <1>1. UNCHANGED <<seen, pc, work, owner, exposed>>
    BY DEF WriteBack, words, stateHistory
  <1>2. ASSUME pc \in {"document", "document_flush"} PROVE Composing'
    <2>1. PICK x \in Decode(seen), s \in Slot, v \in Number, d \in Document :
            /\ work = [slot |-> {s}, doc |-> {d},
                       record |-> {Recorded(x, s, v, d)}]
            /\ s \notin x.running /\ ~NotNewest(x, v) /\ x.owned
            /\ \A r \in Decode(disk) : s \notin r.running
            /\ pc = "document_flush" => seen[SlotSector(s)] = {d}
      BY <1>2 DEF IInv, Composing
    <2>2. Decode(seen) = {x}
      BY DecodeIsNewest DEF IInv, Medium
    <2>3. owner BY <1>2 DEF IInv, Composing
    <2>4. \A r \in Decode(disk') : s \notin r.running
      BY <2>1, <2>2
    <2> QED BY <1>1, <1>2, <2>1, <2>3, <2>4 DEF Composing
  <1>3. ASSUME pc = "commit" PROVE Composing'
    <2>1. PICK x \in Decode(disk), y \in work.record :
            /\ Decode(seen) = {x} /\ work.record = {y}
            /\ Successor(x, y) /\ Whole(y) /\ (exposed => ~x.owned)
      BY <1>3 DEF IInv, Composing
    <2>2. IsState(x) /\ Decode(disk) = {x}
      BY DecodeIsNewest DEF IInv, Medium
    <2>3. IsState(y)
      BY <2>1, <2>2, SuccessorIsState
    <2>4. Whole(y)'
      BY <2>1, <2>3, WholeWrittenBack
    <2> QED BY <1>1, <1>3, <2>1, <2>2, <2>4 DEF Composing
  <1>4. ASSUME pc = "commit_flush" PROVE Composing'
    <2>1. PICK y \in Decode(seen) :
            /\ work.record = {y} /\ seen[ParityCopy(y.gen)] = {y} /\ Whole(y)
            /\ y.owned /\ y.gen > 1
      BY <1>4 DEF IInv, Composing
    <2>2. IsState(y)
      BY DecodeIsNewest DEF IInv, Medium
    <2>3. Whole(y)'
      BY <2>1, <2>2, WholeWrittenBack
    <2> QED BY <1>1, <1>4, <2>1, <2>3 DEF Composing
  <1> QED BY <1>1, <1>2, <1>3, <1>4 DEF Composing

\* A place written back gives the medium what the cache shows there.
LEMMA WriteBackIInv ==
  ASSUME IInv, NEW p \in Place, WriteBack(p) PROVE IInv' /\ Moves
  <1>1. /\ \A q \in Place : disk'[q] = IF q = p THEN seen[p] ELSE disk[q]
        /\ disk' = [q \in Place |-> disk'[q]]
        /\ seen[p] # disk[p]
        /\ UNCHANGED <<seen, pc, work, minted, owner, promised, erasing,
                       cleared, exposed>>
    BY DEF WriteBack, IInv, Medium, words, stateHistory
  <1>2. minted \in Identity /\ Copies(disk) /\ Copies(seen)
        /\ (\A r \in promised : r.gen \in Nat)
        /\ seen = [q \in Place |-> seen[q]]
        /\ pc \in Establishing \cup Serving \cup {"off", "refused"}
    BY DEF IInv, Medium
  <1>3. CASE /\ pc = "clear_flush" \/ pc = "refused"
             /\ \A q \in Place \ {ResetRequest} : seen[q] = disk[q]
    <2>1. \A q \in Place \ {ResetRequest} : disk'[q] = disk[q]
      BY <1>1, <1>3
    <2>2. /\ Copies(disk') /\ Decode(disk') = Decode(disk)
          /\ PromisedSurvives' /\ RunningIsWhole'
      BY <1>1, <2>1, SameRecord
    <2> QED BY <1>1, <1>2, <1>3, <2>1, <2>2
            DEF IInv, Medium, BringUp, Refused, Served, Composing, Moves,
                Serving, Establishing
  <1>4. CASE /\ pc = "overwrite_flush" \/ pc = "refused"
             /\ erasing /\ cleared /\ promised = {}
             /\ \A q \in Place : seen[q] = {} \/ seen[q] = disk[q]
    <2>1. \A c \in Copy : disk'[c] = disk[c] \/ disk'[c] = {}
      BY <1>1, <1>4, Layout
    <2>2. Copies(disk') /\ Moves
      BY <1>2, <1>4, <2>1, CopiesLess DEF Moves
    <2>3. \A q \in Place : seen[q] = {} \/ seen[q] = disk'[q]
      BY <1>1, <1>4
    <2>4. PromisedSurvives' /\ RunningIsWhole'
      BY <1>1, <1>4 DEF PromisedSurvives, RunningIsWhole
    <2> QED BY <1>1, <1>2, <1>4, <2>2, <2>3, <2>4
            DEF IInv, Medium, BringUp, Refused, Served, Composing,
                Serving, Establishing
  <1>5. CASE /\ pc = "mint_flush" \/ pc = "refused"
             /\ promised = {} \/ exposed
             /\ \A c \in Copy : /\ seen[c] \subseteq {Minted(minted)}
                                /\ disk[c] \subseteq seen[c]
    <2>1. \A c \in Copy : disk'[c] \subseteq seen[c] /\ disk[c] \subseteq disk'[c]
      BY <1>1, <1>5, Layout
    <2>2. \A c \in Copy : /\ disk'[c] \subseteq {Minted(minted)}
                          /\ disk[c] \subseteq {Minted(minted)}
      BY <1>5, <2>1
    <2>3. /\ Copies(disk')
          /\ Decode(disk') = {} \/ Decode(disk') = {Minted(minted)}
          /\ Decode(disk) = {} \/ Decode(disk) = {Minted(minted)}
      BY <1>2, <2>2, CopiesMinted
    <2>4. Decode(disk') = {} => Decode(disk) = {}
      <3>1. ASSUME Decode(disk') = {} PROVE Decode(disk) = {}
        <4>1. disk'[CopyA] = {} /\ disk'[CopyB] = {}
          BY <3>1, DecodeNothing
        <4>2. disk[CopyA] = {} /\ disk[CopyB] = {}
          BY <2>1, <4>1 DEF Copy
        <4> QED BY <4>2 DEF Decode
      <3> QED BY <3>1
    <2>5. Moves
      BY <1>2, <2>3, <2>4 DEF Moves
    <2>6. PromisedSurvives' /\ RunningIsWhole'
      BY <1>1, <1>2, <1>5, <2>3, MintedIsState
         DEF PromisedSurvives, RunningIsWhole, RunningMatches
    <2> QED BY <1>1, <1>2, <1>5, <2>1, <2>3, <2>5, <2>6
            DEF IInv, Medium, BringUp, Refused, Served, Composing,
                Serving, Establishing
  <1>6. CASE pc \in Serving /\ exposed
    <2>1. Hangs BY <1>6 DEF IInv, Served
    <2>2. \/ \A c \in Copy : disk'[c] = disk[c]
          \/ p = CopyA /\ \A c \in Copy : disk'[c] = seen[c]
      BY <1>1, <2>1, Layout DEF Hangs, Copy
    <2>3. /\ Copies(disk')
          /\ Decode(disk') = Decode(disk) \/ Decode(disk') = Decode(seen)
      BY <1>2, <2>2, CopiesSame
    <2>4. Composing'
      BY <2>3, ComposingWrittenBack
    <2>5. Hangs'
      BY <1>1, <2>1, <2>2 DEF Hangs, Copy
    <2>6. Medium'
      BY <1>1, <1>2, <2>3 DEF Medium
    <2>7. IInv'
      BY <1>1, <1>6, <2>4, <2>5, <2>6, HangingStep
    <2>8. Moves
      <3>1. CASE Decode(disk') = Decode(disk)
        BY <3>1 DEF Moves
      <3>2. CASE p = CopyA /\ \A c \in Copy : disk'[c] = seen[c]
        <4>1. /\ Decode(disk') = seen[CopyA] /\ Decode(disk) = disk[CopyA]
          BY <2>1, <3>2 DEF Hangs, Decode, Copy
        <4>2. CASE seen[CopyA] = {}
          BY <1>1, <1>6, <3>2, <4>1, <4>2 DEF Moves
        <4>3. ASSUME NEW x \in disk[CopyA], NEW y \in seen[CopyA],
                     Successor(x, y)
              PROVE  Moves
          <5>1. seen[CopyA] = {y}
            BY SMTT(60), <1>2, <4>3 DEF Copies, Copy
          <5> QED BY <4>1, <4>3, <5>1 DEF Moves
        <4> QED BY <1>1, <2>1, <3>2, <4>2, <4>3 DEF Hangs
      <3> QED BY <1>2, <2>2, <3>1, <3>2, CopiesSame
    <2> QED BY <2>7, <2>8
  <1>7. CASE pc \in Serving /\ ~exposed
    <2>1. PICK x : /\ IsState(x) /\ Holds(x) /\ Decode(disk) = {x}
                   /\ \/ Decode(seen) = {x} /\ Older(seen[NextCopy(x)], x)
                      \/ \E y : /\ Decode(seen) = {y}
                                /\ seen[NextCopy(x)] = {y}
                                /\ Successor(x, y) /\ Whole(y)
      BY <1>7, HeldIs
    <2>2. /\ KeptCopy(x) \in Copy /\ NextCopy(x) \in Copy
          /\ Copy = {KeptCopy(x), NextCopy(x)}
          /\ KeptCopy(x) # NextCopy(x)
      BY <2>1, KeptAndNext
    <2>3. \/ \A c \in Copy : disk'[c] = disk[c]
          \/ p = NextCopy(x) /\ \A c \in Copy : disk'[c] = seen[c]
      BY <1>1, <2>1, <2>2, Layout DEF Holds
    <2>4. /\ Copies(disk')
          /\ Decode(disk') = Decode(disk) \/ Decode(disk') = Decode(seen)
      BY <1>2, <2>3, CopiesSame
    <2>5. Composing' /\ Medium'
      BY <1>1, <1>2, <2>4, ComposingWrittenBack DEF Medium
    <2>6. ~cleared => Whole(x)'
      BY <2>1, WholeWrittenBack DEF Holds
    <2>7. \A r \in promised :
            x.id = r.id /\ x.gen >= r.gen /\ (r.owned => x.owned)
      BY <1>7, <2>1 DEF IInv, PromisedSurvives
    <2>8. CASE \A c \in Copy : disk'[c] = disk[c]
      <3>1. Holds(x)'
        <4>1. disk'[KeptCopy(x)] = {x} /\ Older(disk'[NextCopy(x)], x)
          BY <2>1, <2>2, <2>8 DEF Holds
        <4>2. \/ Older(seen[NextCopy(x)], x)
              \/ \E y \in seen[NextCopy(x)] :
                   seen[NextCopy(x)] = {y} /\ Successor(x, y) /\ Whole(y)'
          BY <2>1, SuccessorIsState, WholeWrittenBack
        <4> QED BY <1>1, <2>1, <2>6, <4>1, <4>2 DEF Holds
      <3> QED BY <1>1, <1>7, <2>1, <2>5, <2>7, <3>1, ServingStep DEF Moves
    <2>9. CASE /\ p = NextCopy(x) /\ \A c \in Copy : disk'[c] = seen[c]
               /\ Older(seen[NextCopy(x)], x)
      <3>1. Holds(x)'
        BY <1>1, <2>1, <2>2, <2>6, <2>9 DEF Holds
      <3> QED BY <1>1, <1>7, <2>1, <2>5, <2>7, <3>1, ServingStep DEF Moves
    <2>10. ASSUME p = NextCopy(x), \A c \in Copy : disk'[c] = seen[c],
                  NEW y, seen[NextCopy(x)] = {y}, Successor(x, y), Whole(y)
           PROVE  IInv' /\ Moves
      <3>1. /\ IsState(y) /\ y.gen = x.gen + 1 /\ y.id = x.id /\ y.owned
        BY <2>1, <2>10, SuccessorIsState
      <3>2. KeptCopy(y) = NextCopy(x) /\ NextCopy(y) = KeptCopy(x)
        BY <2>1, <3>1, KeptAndNext
      <3>3. Whole(y)'
        BY <2>10, <3>1, WholeWrittenBack
      <3>4. x.gen \in Nat BY <2>1 DEF IsState, Rec
      <3>5. Older({x}, y)
        BY SMTT(60), <3>1, <3>4 DEF Older
      <3>6. Holds(y)'
        BY <1>1, <2>1, <2>2, <2>10, <3>1, <3>2, <3>3, <3>5 DEF Holds
      <3>7. \A r \in promised' :
              y.id = r.id /\ y.gen >= r.gen /\ (r.owned => y.owned)
        <4>1. \A r \in promised : y.gen >= r.gen
          BY SMTT(60), <1>2, <2>7, <3>1, <3>4
        <4> QED BY <1>1, <2>7, <3>1, <4>1
      <3>8. IInv' /\ Decode(disk)' = {y}
        BY <1>1, <1>7, <2>5, <3>1, <3>6, <3>7, ServingStep
      <3> QED BY <2>1, <2>10, <3>8 DEF Moves
    <2> QED BY <2>1, <2>3, <2>8, <2>9, <2>10 DEF Holds
  <1> QED BY <1>1, <1>2, <1>3, <1>4, <1>5, <1>6, <1>7
          DEF IInv, BringUp, Refused, Establishing

\* The request is written to a node that is off.
LEMMA RequestResetIInv == ASSUME IInv, RequestReset PROVE IInv' /\ Moves
  <1>1. /\ \A p \in Place \ {ResetRequest} : disk'[p] = disk[p]
        /\ disk' = [p \in Place |-> disk'[p]] /\ seen' = disk' /\ pc' = "off"
        /\ UNCHANGED <<minted, promised, cleared, exposed>>
    BY DEF RequestReset, IInv, Medium, stateHistory
  <1>2. /\ Copies(disk') /\ Decode(disk') = Decode(disk)
        /\ PromisedSurvives' /\ RunningIsWhole'
    BY <1>1, SameRecord
  <1>3. minted \in Identity /\ \A r \in promised : r.gen \in Nat
    BY DEF IInv, Medium
  <1> QED BY <1>1, <1>2, <1>3, OffStep DEF Moves

-----------------------------------------------------------------------------
(* Bring-up *)

\* A step that leaves the medium under the cache alone.
LEMMA SameDisk ==
  ASSUME IInv, UNCHANGED <<disk, promised, exposed, cleared>>
  PROVE  Moves /\ PromisedSurvives' /\ RunningIsWhole'
  BY SameRecord DEF Moves

\* A boot serves the record it finds, or goes on to make one.
LEMMA BootIInv == ASSUME IInv, Boot PROVE IInv' /\ Moves
  <1>1. /\ UNCHANGED <<seen, disk, work, minted, erasing, cleared>>
        /\ pc = "off" /\ seen = disk
    BY DEF Boot, IInv, BringUp
  <1>2. /\ minted \in Identity /\ Copies(disk)
        /\ (\A r \in promised : r.gen \in Nat)
        /\ disk = [q \in Place |-> disk[q]]
    BY DEF IInv, Medium
  <1>3. CASE /\ pc' = "clear" \/ pc' = "refused"
             /\ UNCHANGED <<promised, exposed>>
    BY <1>1, <1>2, <1>3, SameDisk
       DEF IInv, Medium, BringUp, Refused, Served, Composing, Serving,
           Establishing
  <1>4. CASE /\ pc' = "mint" /\ Decode(seen) = {}
             /\ UNCHANGED <<promised, exposed>>
    <2>1. \A c \in Copy : disk[c] = {}
      BY <1>1, <1>4, DecodeNothing DEF Copy
    <2>2. promised = {} \/ exposed
      BY <1>1, <1>4 DEF IInv, PromisedSurvives
    <2> QED BY <1>1, <1>2, <1>4, <2>1, <2>2, SameDisk
            DEF IInv, Medium, BringUp, Refused, Served, Composing, Serving,
                Establishing
  <1>5. ASSUME NEW r \in Decode(seen), pc' = "serve", Publish(r),
               promised' = {r}, exposed' = Exposed(seen)
        PROVE  IInv' /\ Moves
    <2>1. /\ IsState(r) /\ Decode(disk) = {r}
          /\ Older(disk[CopyA], r) /\ Older(disk[CopyB], r)
      BY <1>1, <1>2, DecodeIsNewest
    <2>2. Moves BY <1>1 DEF Moves
    <2>3. Composing' BY <1>5 DEF Composing
    <2>4. r.gen \in Nat BY <2>1 DEF IsState, Rec
    <2>5. Medium'
      BY <1>1, <1>2, <1>5, <2>4 DEF Medium, Serving
    <2>6. Exposed(seen) <=> disk[KeptCopy(r)] # {r}
      BY <1>1, <2>1 DEF Exposed, KeptCopy
    <2>7. owner' = r.owned
      BY <1>5 DEF Publish
    <2>8. CASE disk[KeptCopy(r)] = {r}
      <3>1. Older(disk[NextCopy(r)], r)
        BY <2>1, KeptAndNext DEF Copy
      <3>2. ~cleared => Whole(r)
        BY <1>1, <2>1 DEF IInv, RunningIsWhole, Whole
      <3>3. owner' => r.owned
        BY <2>7
      <3>4. ~cleared' => Whole(r)'
        BY <1>1, <3>2 DEF Whole, RunningMatches
      <3>5. Holds(r)'
        BY <1>1, <2>8, <3>1, <3>3, <3>4 DEF Holds
      <3>6. ~exposed'
        BY <1>5, <2>6, <2>8
      <3> QED
        BY SMTT(60), <1>5, <2>1, <2>2, <2>3, <2>4, <2>5, <3>5, <3>6,
           ServingStep
              DEF Serving
    <2>9. CASE disk[KeptCopy(r)] # {r}
      <3>1. disk[CopyA] = {r} /\ disk[CopyB] = {} /\ r.gen = 1
        BY <1>2, <2>1, <2>9, HeldOrHanging
      <3>2. ~r.owned /\ r.running = {}
        BY <2>1, <3>1 DEF IsState
      <3>3. ~owner'
        BY <2>7, <3>2
      <3>4. Hangs'
        BY <1>1, <3>1, <3>2, <3>3 DEF Hangs
      <3>5. exposed'
        BY <1>5, <2>6, <2>9
      <3> QED BY <1>5, <2>2, <2>3, <2>5, <3>4, <3>5, HangingStep DEF Serving
    <2> QED BY <2>8, <2>9
  <1> QED BY <1>3, <1>4, <1>5 DEF Boot

\* The request is cleared.
LEMMA ClearResetIInv == ASSUME IInv, ClearReset PROVE IInv' /\ Moves
  <1>1. /\ \A p \in Place \ {ResetRequest} : seen'[p] = seen[p]
        /\ seen' = [p \in Place |-> seen'[p]]
        /\ pc = "clear" /\ (pc' = "clear_flush" \/ pc' = "refused")
        /\ UNCHANGED <<disk, minted, promised, erasing, cleared, exposed>>
    BY DEF ClearReset, Written, PartlyWritten, Failed, Establishing, stateHistory
  <1>2. Copies(seen')
    BY <1>1, CopiesSame, Layout DEF IInv, Medium
  <1>3. \A p \in Place \ {ResetRequest} : seen'[p] = disk[p]
    BY <1>1 DEF IInv, BringUp
  <1> QED BY <1>1, <1>2, <1>3, SameDisk
          DEF IInv, Medium, BringUp, Refused, Served, Composing, Serving,
              Establishing

LEMMA ClearResetFlushIInv == ASSUME IInv, ClearResetFlush PROVE IInv' /\ Moves
  <1>1. /\ \A p \in Place \ {ResetRequest} : seen[p] = disk[p]
        /\ seen = [p \in Place |-> seen[p]] /\ Copies(seen)
        /\ minted \in Identity /\ \A r \in promised : r.gen \in Nat
        /\ UNCHANGED <<seen, minted, erasing, exposed>>
    BY DEF ClearResetFlush, IInv, Medium, BringUp
  <1>2. CASE disk' = seen /\ pc' = "overwrite" /\ promised' = {} /\ cleared'
    <2>1. /\ Copies(disk') /\ Decode(disk') = Decode(disk)
          /\ PromisedSurvives' /\ RunningIsWhole'
      BY <1>1, <1>2, SameRecord
    <2> QED BY <1>1, <1>2, <2>1
            DEF IInv, Medium, BringUp, Refused, Served, Composing, Moves,
                Serving, Establishing
  <1>3. CASE pc' = "refused" /\ UNCHANGED <<disk, promised, cleared>>
    BY <1>1, <1>3, SameDisk
       DEF IInv, Medium, BringUp, Refused, Served, Composing, Serving,
           Establishing
  <1> QED BY <1>2, <1>3 DEF ClearResetFlush, Failed, Establishing

\* The store is overwritten: from here on nothing is promised.
LEMMA OverwriteIInv == ASSUME IInv, Overwrite PROVE IInv' /\ Moves
  <1>1. /\ seen' = [p \in Place |-> seen'[p]] /\ erasing'
        /\ UNCHANGED <<disk, minted, promised, cleared, exposed>>
        /\ pc = "overwrite"
    BY DEF Overwrite, Written, PartlyWritten
  <1>2. /\ cleared /\ promised = {} /\ seen = disk /\ Copies(disk)
        /\ minted \in Identity /\ disk = [p \in Place |-> disk[p]]
    BY <1>1 DEF IInv, Medium, BringUp
  <1>3. \/ pc' = "overwrite_flush" /\ \A p \in Place : seen'[p] = {}
        \/ pc' = "refused"
           /\ \A p \in Place : seen'[p] = {} \/ seen'[p] = disk[p]
    BY <1>2 DEF Overwrite, Written, PartlyWritten, Failed, Establishing
  <1>4. Copies(seen')
    <2>1. \A c \in Copy : seen'[c] = disk[c] \/ seen'[c] = {}
      BY <1>3, Layout
    <2> QED BY <1>2, <2>1, CopiesLess
  <1> QED BY <1>1, <1>2, <1>3, <1>4, SameDisk
          DEF IInv, Medium, BringUp, Refused, Served, Composing, Serving,
              Establishing

LEMMA OverwriteFlushIInv == ASSUME IInv, OverwriteFlush PROVE IInv' /\ Moves
  <1>1. /\ UNCHANGED <<seen, minted, promised, exposed>>
        /\ cleared /\ promised = {} /\ erasing /\ \A p \in Place : seen[p] = {}
        /\ minted \in Identity /\ Copies(disk) /\ Copies(seen)
        /\ seen = [p \in Place |-> seen[p]]
    BY DEF OverwriteFlush, IInv, Medium, BringUp
  <1>2. CASE disk' = seen /\ pc' = "mint"
    <2>1. \A c \in Copy : disk'[c] = {}
      BY <1>1, <1>2, Layout
    <2>2. Moves
      BY <1>1, <2>1, CopiesLess DEF Moves
    <2>3. Decode(disk') = {}
      BY <2>1 DEF Decode, Copy
    <2>4. PromisedSurvives' /\ RunningIsWhole'
      BY <1>1, <2>3 DEF PromisedSurvives, RunningIsWhole
    <2> QED BY <1>1, <1>2, <2>1, <2>2, <2>4
            DEF IInv, Medium, BringUp, Refused, Served, Composing, Serving,
                Establishing
  <1>3. CASE pc' = "refused" /\ UNCHANGED <<disk, cleared, erasing>>
    BY <1>1, <1>3, SameDisk
       DEF IInv, Medium, BringUp, Refused, Served, Composing, Serving,
           Establishing
  <1> QED BY <1>2, <1>3 DEF OverwriteFlush, Failed, Establishing

\* An identity is minted where no copy was left.
LEMMA MintIInv == ASSUME IInv, Mint PROVE IInv' /\ Moves
  <1>1. /\ UNCHANGED <<disk, promised, erasing, cleared, exposed>>
        /\ pc = "mint" /\ minted' = (minted + 1) % IDS
        /\ seen' = [p \in Place |-> seen'[p]]
    BY DEF Mint, Written, PartlyWritten, stateHistory, IInv, Medium
  <1>2. /\ promised = {} \/ exposed
        /\ seen = disk /\ \A c \in Copy : disk[c] = {} /\ seen[c] = {}
    BY <1>1 DEF IInv, BringUp
  <1>3. minted' \in Identity
    BY SMTT(60), <1>1, IdsAssumption DEF Identity, IInv, Medium
  <1>4. \/ pc' = "mint_flush" /\ \A c \in Copy : seen'[c] = {Minted(minted')}
        \/ pc' = "refused" /\ \A c \in Copy : seen'[c] \subseteq {Minted(minted')}
    <2>1. CASE Written(Copy, {Minted(minted')}) /\ pc' = "mint_flush"
      BY <2>1, Layout DEF Written
    <2>2. CASE PartlyWritten(Copy, {Minted(minted')}) /\ Failed
      BY <1>1, <1>2, <2>2, Layout DEF PartlyWritten, Failed, Establishing
    <2>3. CASE UNCHANGED seen /\ Failed
      BY <1>1, <1>2, <2>3 DEF Failed, Establishing
    <2> QED BY <2>1, <2>2, <2>3 DEF Mint, Copy
  <1>5. Copies(seen')
    BY <1>3, <1>4, CopiesMinted
  <1> QED BY <1>1, <1>2, <1>3, <1>4, <1>5, SameDisk
          DEF IInv, Medium, BringUp, Refused, Served, Composing, Serving,
              Establishing

\* It is in both copies, and neither commit nor cut takes it from both.
LEMMA MintFlushIInv == ASSUME IInv, MintFlush PROVE IInv' /\ Moves
  <1>0. PICK M : M = Minted(minted)
    OBVIOUS
  <1>1. /\ UNCHANGED <<seen, minted, erasing>> /\ minted \in Identity
        /\ promised = {} \/ exposed
        /\ \A c \in Copy : seen[c] = {M} /\ disk[c] \subseteq {M}
        /\ Copies(seen) /\ Copies(disk) /\ pc = "mint_flush"
        /\ seen = [p \in Place |-> seen[p]]
        /\ disk = [p \in Place |-> disk[p]]
    BY <1>0 DEF MintFlush, IInv, Medium, BringUp
  <1>2. IsState(M) /\ M.gen = 1 /\ M.running = {}
    BY <1>0, <1>1, MintedIsState
  <1>3. CASE /\ disk' = seen /\ pc' = "serve" /\ Publish(M)
             /\ promised' = {M} /\ ~exposed'
    <2>1. Medium' /\ Composing'
      BY SMTT(60), <1>1, <1>2, <1>3 DEF Medium, Composing, Serving
    <2>2. owner' => M.owned
      BY <1>3 DEF Publish
    <2>3. Whole(M)'
      BY <1>2 DEF Whole, RunningMatches
    <2>4. Holds(M)'
      BY SMTT(60), <1>1, <1>2, <1>3, <2>2, <2>3, KeptAndNext DEF Holds, Older
    <2>5. IInv' /\ Decode(disk)' = {M}
      BY SMTT(60), <1>2, <1>3, <2>1, <2>4, ServingStep DEF Serving
    <2>6. Decode(disk) = {} \/ Decode(disk) = {M}
      BY <1>0, <1>1, CopiesMinted
    <2> QED BY <1>0, <1>1, <2>5, <2>6 DEF Moves
  <1>4. CASE pc' = "refused" /\ UNCHANGED <<disk, promised, exposed, cleared>>
    BY <1>0, <1>1, <1>4, SameDisk
       DEF IInv, Medium, BringUp, Refused, Served, Composing, Serving,
           Establishing
  <1> QED BY <1>0, <1>1, <1>3, <1>4 DEF MintFlush, Failed, Establishing

-----------------------------------------------------------------------------
(* Demands *)

\* A step of a demand that writes nothing.
LEMMA SameMedium ==
  ASSUME IInv, pc \in Serving, pc' \in Serving, Composing',
         UNCHANGED <<seen, disk, owner, cleared, exposed, promised, minted>>
  PROVE  IInv' /\ Moves
  <1>1. Served' /\ BringUp' /\ Refused' /\ Medium'
    BY DEF IInv, Served, Hangs, Holds, Whole, BringUp, Refused,
                      Medium, Serving
  <1> QED BY <1>1, SameDisk DEF IInv

\* A failed step of a demand leaves nothing composed.
LEMMA FailedServes ==
  ASSUME pc \in Serving, Failed
  PROVE  pc' = "serve" /\ Composing'
  BY DEF Failed, Serving, Establishing, Composing

\* An adoption is composed from a record that is on the medium.
LEMMA InstallIInv == ASSUME IInv, Install PROVE IInv' /\ Moves
  <1>1. PICK r \in Decode(seen) : ~r.owned /\ work'.record = {Adopted(r)}
    BY DEF Install, NoWork
  <1>2. /\ UNCHANGED <<seen, disk, owner, cleared, exposed, promised, minted>>
        /\ pc = "serve" /\ pc' = "commit"
    BY DEF Install, words, stateHistory
  <1>3. Copies(seen) /\ Copies(disk) BY DEF IInv, Medium
  <1>4. IsState(r) /\ Decode(seen) = {r}
    BY <1>3, DecodeIsNewest
  <1>5. Decode(disk) = {r}
    <2>1. CASE exposed
      <3>1. Hangs BY <1>2, <2>1 DEF IInv, Served, Serving
      <3>2. Decode(seen) = seen[CopyA] /\ Decode(disk) = disk[CopyA]
        BY <3>1 DEF Hangs, Decode
      <3>3. ASSUME NEW x \in disk[CopyA], NEW y \in seen[CopyA],
                   Successor(x, y)
            PROVE  FALSE
        <4>1. IsState(x) BY <1>3, <3>3 DEF Copies, Copy
        <4>2. y = r BY <1>4, <3>2, <3>3
        <4> QED BY <1>1, <3>3, <4>1, <4>2, SuccessorIsState
      <3> QED BY <1>4, <3>1, <3>2, <3>3 DEF Hangs
    <2>2. CASE ~exposed
      <3>1. PICK x : /\ IsState(x) /\ Decode(disk) = {x}
                     /\ \/ Decode(seen) = {x}
                        \/ \E y : Decode(seen) = {y} /\ Successor(x, y)
        BY <1>2, <2>2, HeldIs DEF Serving
      <3> QED BY <1>1, <1>4, <3>1, SuccessorIsState
    <2> QED BY <2>1, <2>2
  <1>6. Successor(r, Adopted(r))
    BY <1>1 DEF Successor
  <1>7. Whole(Adopted(r))
    BY <1>1, <1>4, <1>6, SuccessorIsState DEF Whole, RunningMatches
  <1>8. PICK y : y = Adopted(r) OBVIOUS
  <1>9. Whole(y)' /\ Successor(r, y)
    BY <1>2, <1>6, <1>7, <1>8 DEF Whole
  <1>10. Composing'
    BY <1>1, <1>2, <1>4, <1>5, <1>8, <1>9 DEF Composing
  <1> QED BY <1>2, <1>10, SameMedium DEF Serving

\* A document goes to a slot that no record on the medium or in the cache runs.
LEMMA RecordConfigIInv ==
  ASSUME IInv, NEW v \in Number, NEW d \in Document, RecordConfig(v, d)
  PROVE  IInv' /\ Moves
  <1>1. PICK r \in Decode(seen), s \in Slot :
          /\ ~NotNewest(r, v) /\ NextForReuse(r, s)
          /\ work' = [slot |-> {s}, doc |-> {d},
                      record |-> {Recorded(r, s, v, d)}]
    BY DEF RecordConfig
  <1>2. /\ UNCHANGED <<seen, disk, owner, cleared, exposed, promised, minted>>
        /\ pc = "serve" /\ pc' = "document" /\ owner
    BY DEF RecordConfig, words, stateHistory
  <1>3. Copies(seen) /\ Copies(disk) BY DEF IInv, Medium
  <1>4. IsState(r) /\ Decode(seen) = {r}
    BY <1>3, DecodeIsNewest
  <1>5. ~exposed
    BY <1>2 DEF IInv, Served, Serving, Hangs
  <1>6. PICK x : /\ IsState(x) /\ Holds(x) /\ Decode(disk) = {x}
                 /\ \/ Decode(seen) = {x}
                    \/ \E y : Decode(seen) = {y} /\ Successor(x, y)
    BY <1>2, <1>5, HeldIs DEF Serving
  <1>7. x.owned
    BY <1>2, <1>6 DEF Holds
  <1>8. r = x \/ Successor(x, r)
    BY <1>4, <1>6
  <1>9. r.owned
    BY <1>6, <1>7, <1>8, SuccessorIsState
  <1>10. s \notin r.running
    BY <1>1, <1>4, ReuseIsFree
  <1>11. s \notin x.running
    BY <1>1, <1>6, <1>7, <1>8, <1>10, ReuseSparesPredecessor
  <1>12. Composing'
    BY <1>1, <1>2, <1>6, <1>9, <1>10, <1>11 DEF Composing
  <1> QED BY <1>2, <1>12, SameMedium DEF Serving

\* Its bytes touch nothing a record runs.
LEMMA WriteDocumentIInv == ASSUME IInv, WriteDocument PROVE IInv' /\ Moves
  <1>1. /\ UNCHANGED <<disk, work, owner, cleared, exposed, promised, minted>>
        /\ pc = "document" /\ owner
    BY DEF WriteDocument, words, stateHistory, IInv, Composing
  <1>2. PICK z \in Decode(seen), s \in Slot, v \in Number, d \in Document :
          /\ work = [slot |-> {s}, doc |-> {d},
                     record |-> {Recorded(z, s, v, d)}]
          /\ s \notin z.running /\ ~NotNewest(z, v) /\ z.owned
          /\ \A r \in Decode(disk) : s \notin r.running
    BY <1>1 DEF IInv, Composing
  <1>3. /\ seen' = [p \in Place |-> seen'[p]]
        /\ \A p \in Place : p # SlotSector(s) => seen'[p] = seen[p]
        /\ \/ pc' = "serve"
           \/ pc' = "document_flush" /\ seen'[SlotSector(s)] = {d}
    BY <1>1, <1>2, Layout
       DEF WriteDocument, Written, PartlyWritten, Failed, Establishing
  <1>4. ~exposed
    BY <1>1 DEF IInv, Served, Serving, Hangs
  <1>5. PICK x : /\ IsState(x) /\ Holds(x) /\ Decode(disk) = {x}
                 /\ \/ Decode(seen) = {x} /\ Older(seen[NextCopy(x)], x)
                    \/ \E y : /\ Decode(seen) = {y} /\ seen[NextCopy(x)] = {y}
                              /\ Successor(x, y) /\ Whole(y)
    BY <1>1, <1>4, HeldIs DEF Serving
  <1>6. \A c \in Copy : seen'[c] = seen[c]
    BY <1>3, Layout
  <1>7. Copies(seen') /\ Decode(seen') = Decode(seen)
    BY <1>6, CopiesSame DEF IInv, Medium
  <1>8. Medium'
    BY <1>1, <1>3, <1>7 DEF IInv, Medium, Serving
  <1>9. Composing'
    BY <1>1, <1>2, <1>3, <1>7 DEF Composing
  <1>10. ASSUME NEW r, IsState(r), s \notin r.running, Whole(r)
         PROVE  Whole(r)'
    <2>1. \A t \in r.running :
            SlotSector(t) \in Place /\ SlotSector(t) # SlotSector(s)
      BY <1>10, Layout DEF IsState, Rec
    <2> QED BY <1>1, <1>3, <1>10, <2>1 DEF Whole, RunningMatches
  <1>11. ~cleared => Whole(x)'
    BY <1>2, <1>5, <1>10 DEF Holds
  <1>12. KeptCopy(x) \in Copy /\ NextCopy(x) \in Copy
    BY <1>5, KeptAndNext
  <1>13. \/ Older(seen'[NextCopy(x)], x)
         \/ \E y \in seen'[NextCopy(x)] :
              seen'[NextCopy(x)] = {y} /\ Successor(x, y) /\ Whole(y)'
    <2>1. CASE Older(seen[NextCopy(x)], x)
      BY <1>6, <1>12, <2>1
    <2>2. ASSUME NEW y, Decode(seen) = {y}, seen[NextCopy(x)] = {y},
                 Successor(x, y), Whole(y)
          PROVE  Whole(y)'
      <3>1. IsState(y) /\ y = z
        BY <1>2, <1>5, <2>2, SuccessorIsState
      <3> QED BY <1>2, <1>10, <2>2, <3>1
    <2> QED BY <1>5, <1>6, <1>12, <2>1, <2>2
  <1>14. Holds(x)'
    BY <1>1, <1>5, <1>6, <1>11, <1>12, <1>13 DEF Holds
  <1>15. \A r \in promised' :
           x.id = r.id /\ x.gen >= r.gen /\ (r.owned => x.owned)
    BY <1>1, <1>4, <1>5 DEF IInv, PromisedSurvives
  <1> QED BY <1>1, <1>3, <1>4, <1>5, <1>8, <1>9, <1>14, <1>15, ServingStep
          DEF Moves, Serving

\* The flush before the record is written puts what the cache shows on the
\* medium: the record the new one is made from, and the document.
LEMMA WriteDocumentFlushIInv ==
  ASSUME IInv, WriteDocumentFlush PROVE IInv' /\ Moves
  <1>1. /\ UNCHANGED <<seen, work, owner, cleared, exposed, promised, minted>>
        /\ pc = "document_flush" /\ owner
    BY DEF WriteDocumentFlush, words, stateHistory, IInv, Composing
  <1>2. CASE Failed /\ UNCHANGED disk
    BY <1>1, <1>2, FailedServes, SameMedium DEF Serving
  <1>3. CASE disk' = seen /\ pc' = "commit"
    <2>1. ~exposed
      BY <1>1 DEF IInv, Served, Serving, Hangs
    <2>2. PICK x : /\ IsState(x) /\ Holds(x) /\ Decode(disk) = {x}
                   /\ \/ Decode(seen) = {x} /\ Older(seen[NextCopy(x)], x)
                      \/ \E y : /\ Decode(seen) = {y}
                                /\ seen[NextCopy(x)] = {y}
                                /\ Successor(x, y) /\ Whole(y)
      BY <1>1, <2>1, HeldIs DEF Serving
    <2>3. \A r \in promised : /\ x.id = r.id /\ x.gen >= r.gen /\ r.gen \in Nat
                              /\ r.owned => x.owned
      BY <2>1, <2>2 DEF IInv, PromisedSurvives, Medium
    <2>4. Medium'
      BY <1>1, <1>3 DEF IInv, Medium, Serving
    <2>5. PICK z \in Decode(seen), s \in Slot, v \in Number, d \in Document :
            /\ work = [slot |-> {s}, doc |-> {d},
                       record |-> {Recorded(z, s, v, d)}]
            /\ s \notin z.running /\ ~NotNewest(z, v) /\ z.owned
            /\ seen[SlotSector(s)] = {d}
      BY <1>1 DEF IInv, Composing
    <2>6. IsState(z) /\ Decode(seen) = {z}
      BY DecodeIsNewest DEF IInv, Medium
    <2>7. PICK n : n = Recorded(z, s, v, d) OBVIOUS
    <2>8. Successor(z, n)
      BY <2>5, <2>7 DEF Successor
    <2>9. Whole(n)'
      <3>1. n.running = {s} /\ n.slots[s] = {[version |-> v, doc |-> d]}
        BY SMTT(60), <2>6, <2>7, RecordedIs
      <3>2. \A e \in n.slots[s] : seen[SlotSector(s)] = {e.doc}
        BY SMTT(60), <2>5, <3>1
      <3>3. RunningMatches(seen, n)
        BY <3>1, <3>2 DEF RunningMatches
      <3> QED BY <1>1, <1>3, <3>3 DEF Whole
    <2>10. Composing'
      BY <1>1, <1>3, <2>1, <2>5, <2>6, <2>7, <2>8, <2>9
         DEF Composing
    <2>11. /\ KeptCopy(x) \in Copy /\ NextCopy(x) \in Copy
           /\ \A y : y.gen = x.gen + 1 =>
                KeptCopy(y) = NextCopy(x) /\ NextCopy(y) = KeptCopy(x)
      BY <2>2, KeptAndNext
    <2>12. CASE Decode(seen) = {x} /\ Older(seen[NextCopy(x)], x)
      <3>1. ~cleared => Whole(x)'
        BY <1>1, <1>3, <2>2 DEF Holds, Whole
      <3>2. Holds(x)'
        BY <1>1, <1>3, <2>2, <2>12, <3>1 DEF Holds
      <3> QED BY <1>1, <1>3, <2>1, <2>2, <2>3, <2>4, <2>10, <3>2,
                 ServingStep
              DEF Moves, Serving
    <2>13. ASSUME NEW y, seen[NextCopy(x)] = {y}, Successor(x, y), Whole(y)
           PROVE  IInv' /\ Moves
      <3>1. IsState(y) /\ y.gen = x.gen + 1 /\ y.id = x.id /\ y.owned
        BY <2>2, <2>13, SuccessorIsState
      <3>2. x.gen \in Nat BY <2>2 DEF IsState, Rec
      <3>3. Older({x}, y) BY SMTT(60), <3>1, <3>2 DEF Older
      <3>4. Whole(y)'
        BY <1>1, <1>3, <2>13 DEF Whole
      <3>5. Holds(y)'
        BY <1>1, <1>3, <2>2, <2>11, <2>13, <3>1, <3>3, <3>4
           DEF Holds
      <3>6. \A r \in promised' :
              y.id = r.id /\ y.gen >= r.gen /\ (r.owned => y.owned)
        BY SMTT(60), <1>1, <2>3, <3>1, <3>2
      <3>7. IInv' /\ Decode(disk)' = {y}
        BY <1>1, <1>3, <2>1, <2>4, <2>10, <3>1, <3>5, <3>6, ServingStep
           DEF Serving
      <3> QED BY <2>2, <2>13, <3>7 DEF Moves
    <2> QED BY <2>2, <2>12, <2>13
  <1> QED BY <1>2, <1>3 DEF WriteDocumentFlush

\* The record is written beside the one it is made from, or, where that hangs,
\* over it.
LEMMA CommitIInv == ASSUME IInv, Commit PROVE IInv' /\ Moves
  <1>1. /\ UNCHANGED <<disk, work, owner, cleared, exposed, promised, minted>>
        /\ pc = "commit"
    BY DEF Commit, words, stateHistory
  <1>2. PICK x \in Decode(disk), y \in work.record :
          /\ Decode(seen) = {x} /\ work.record = {y}
          /\ Successor(x, y) /\ Whole(y) /\ (exposed => ~x.owned)
    BY <1>1 DEF IInv, Composing
  <1>3. /\ Copies(seen) /\ Copies(disk)
    BY DEF IInv, Medium
  <1>4. /\ IsState(x) /\ Decode(disk) = {x}
    BY <1>3, DecodeIsNewest
  <1>5. /\ IsState(y) /\ y.gen = x.gen + 1 /\ y.id = x.id /\ y.owned
        /\ ~x.owned => y.running = {}
    BY <1>2, <1>4, SuccessorIsState
  <1>6. /\ ParityCopy(y.gen) = NextCopy(x)
        /\ KeptCopy(x) \in Copy /\ NextCopy(x) \in Copy
        /\ Copy = {KeptCopy(x), NextCopy(x)} /\ KeptCopy(x) # NextCopy(x)
    BY <1>4, <1>5, KeptAndNext
  <1>7. x.gen \in Nat \ {0} BY <1>4 DEF IsState, Rec
  <1>8. /\ seen' = [p \in Place |-> seen'[p]]
        /\ \A p \in Place : p # NextCopy(x) => seen'[p] = seen[p]
        /\ \/ pc' = "commit_flush" /\ seen'[NextCopy(x)] = {y}
           \/ /\ pc' = "serve"
              /\ seen'[NextCopy(x)] \in {{y}, {}, seen[NextCopy(x)]}
    BY <1>1, <1>2, <1>6, Layout
       DEF Commit, Written, PartlyWritten, Failed, Establishing
  <1>9. Whole(y)' /\ (Whole(x) => Whole(x)')
    <2>1. \A r : IsState(r) => \A s \in r.running :
            SlotSector(s) \in Place /\ SlotSector(s) # NextCopy(x)
      BY <1>6, Layout DEF IsState, Rec
    <2>2. \A r : IsState(r) /\ Whole(r) => Whole(r)'
      BY SMTT(60), <1>1, <1>8, <2>1 DEF Whole, RunningMatches
    <2> QED BY <1>2, <1>4, <1>5, <2>2
  <1>10. Moves BY <1>1 DEF Moves
  <1>11. \A c \in Copy : c # NextCopy(x) => seen'[c] = seen[c]
    BY <1>8, Layout
  <1>12. ASSUME Copies(seen'), seen'[NextCopy(x)] = {y} => Decode(seen') = {y}
         PROVE  Medium' /\ Composing'
    <2>1. Medium'
      BY <1>1, <1>8, <1>12 DEF IInv, Medium, Serving
    <2>2. Composing'
      BY SMTT(60), <1>1, <1>2, <1>5, <1>6, <1>7, <1>8, <1>9, <1>12
         DEF Composing
    <2> QED BY <2>1, <2>2
  <1>13. CASE exposed
    <2>1. Hangs BY <1>1, <1>13 DEF IInv, Served, Serving
    <2>2. seen[CopyA] = {x} /\ disk[CopyA] = {x}
      BY <1>2, <1>4, <2>1 DEF Hangs, Decode
    <2>3. x.gen = 1 /\ y.gen = 2 /\ x.running = {} /\ y.running = {}
      <3>1. ~x.owned BY <1>2, <1>13
      <3>2. x.gen = 1 /\ x.running = {}
        BY <1>4, <3>1 DEF IsState
      <3> QED BY SMTT(60), <1>5, <3>1, <3>2
    <2>4. NextCopy(x) = CopyA /\ ParityCopy(2) = CopyA
      BY <1>6, <2>3, CopyFacts
    <2>5. seen'[CopyB] = {}
      BY SMTT(60), <1>11, <2>1, <2>4 DEF Hangs, Copy, CopyA, CopyB
    <2>6. seen'[CopyA] \in {{y}, {}, {x}}
      BY <1>8, <2>2, <2>4
    <2>7. Copies(seen')
      BY SMTT(60), <1>4, <1>5, <2>3, <2>4, <2>5, <2>6 DEF Copies, Copy
    <2>8. Decode(seen') = seen'[CopyA]
      BY <2>5 DEF Decode
    <2>9. Hangs'
      BY <1>1, <1>2, <2>1, <2>2, <2>3, <2>5, <2>6 DEF Hangs
    <2> QED BY <1>1, <1>8, <1>10, <1>12, <1>13, <2>4, <2>7, <2>8, <2>9,
               HangingStep DEF Serving
  <1>14. CASE ~exposed
    <2>1. Holds(x) /\ Older(seen[NextCopy(x)], x)
      <3>1. PICK u : /\ IsState(u) /\ Holds(u) /\ Decode(disk) = {u}
                     /\ \/ Older(seen[NextCopy(u)], u)
                        \/ \E w : Decode(seen) = {w} /\ Successor(u, w)
        BY <1>1, <1>14, HeldIs DEF Serving
      <3>2. u = x BY <1>4, <3>1
      <3>3. ~Successor(x, x)
        BY SMTT(60), <1>4, <1>7, SuccessorIsState
      <3> QED BY <1>2, <3>1, <3>2, <3>3
    <2>2. seen'[KeptCopy(x)] = {x} /\ seen[KeptCopy(x)] = {x}
      BY <1>6, <1>11, <2>1 DEF Holds
    <2>3. CASE seen'[NextCopy(x)] = {y}
      <3>1. Copies(seen') /\ Decode(seen') = {y}
        BY SMTT(60), <1>2, <1>3, <1>4, <2>2, <2>3, CopiesAhead
      <3>2. Holds(x)'
        BY <1>1, <1>2, <1>9, <2>1, <2>2, <2>3 DEF Holds
      <3> QED
        BY SMTT(60), <1>1, <1>4, <1>8, <1>10, <1>12, <1>14, <3>1, <3>2,
           ServingStep
              DEF Serving, IInv, PromisedSurvives
    <2>4. CASE seen'[NextCopy(x)] \in {{}, seen[NextCopy(x)]}
      <3>1. Copies(seen')
        <4>1. \A c \in Copy : seen'[c] = seen[c] \/ seen'[c] = {}
          BY <1>11, <2>4
        <4> QED BY <1>3, <4>1, CopiesLess
      <3>2. seen'[NextCopy(x)] # {y}
        <4>1. y \notin seen[NextCopy(x)]
          BY SMTT(60), <1>5, <1>7, <2>1 DEF Older
        <4> QED BY <2>4, <4>1
      <3>3. Older(seen'[NextCopy(x)], x)
        BY <2>1, <2>4 DEF Older
      <3>4. Holds(x)'
        BY <1>1, <1>9, <2>1, <2>2, <3>3 DEF Holds
      <3> QED
        BY SMTT(60), <1>1, <1>4, <1>8, <1>10, <1>12, <1>14, <3>1, <3>2, <3>4,
                 ServingStep DEF Serving, IInv, PromisedSurvives
    <2> QED BY <1>8, <2>3, <2>4
  <1> QED BY <1>13, <1>14

\* The flush makes it the record, whole and out of reach.
LEMMA CommitFlushIInv == ASSUME IInv, CommitFlush PROVE IInv' /\ Moves
  <1>1. UNCHANGED <<seen, work, minted, erasing>> /\ pc = "commit_flush"
    BY DEF CommitFlush
  <1>2. CASE Failed /\ UNCHANGED <<disk, words, promised, exposed, cleared>>
    BY <1>1, <1>2, FailedServes, SameMedium DEF Serving, words
  <1>3. CASE /\ disk' = seen /\ pc' = "serve"
             /\ \E r \in work.record : Publish(r) /\ promised' = {r}
             /\ exposed' = FALSE /\ cleared' = FALSE
    <2>1. PICK y \in Decode(seen) :
            /\ work.record = {y} /\ seen[ParityCopy(y.gen)] = {y} /\ Whole(y)
            /\ y.owned /\ y.gen > 1
      BY <1>1 DEF IInv, Composing
    <2>2. /\ Copies(seen) /\ Copies(disk) /\ minted \in Identity
          /\ seen = [p \in Place |-> seen[p]]
      BY DEF IInv, Medium
    <2>3. /\ IsState(y) /\ Decode(seen) = {y}
          /\ Older(seen[CopyA], y) /\ Older(seen[CopyB], y)
      BY <2>2, DecodeIsNewest
    <2>4. y.gen \in Nat BY <2>3 DEF IsState, Rec
    <2>5. KeptCopy(y) = ParityCopy(y.gen) /\ NextCopy(y) \in Copy
      BY SMTT(60), <2>3, <2>4, CopyFacts, KeptAndNext
         DEF KeptCopy, Copy, CopyA, CopyB
    <2>6. promised' = {y} BY <1>3, <2>1
    <2>7. Medium' /\ Composing'
      BY <1>1, <1>3, <2>2, <2>4, <2>6 DEF Medium, Composing, Serving
    <2>8. Whole(y)'
      BY <1>1, <1>3, <2>1 DEF Whole
    <2>9. Holds(y)'
      BY <1>1, <1>3, <2>1, <2>3, <2>5, <2>8 DEF Holds, Copy
    <2>10. IInv' /\ Decode(disk)' = {y}
      BY SMTT(60), <1>3, <2>3, <2>4, <2>6, <2>7, <2>9, ServingStep DEF Serving
    <2>11. Moves
      <3>1. CASE exposed
        <4>1. Hangs BY <1>1, <3>1 DEF IInv, Served, Serving
        <4>2. seen[CopyA] = {y} /\ Decode(disk) = disk[CopyA]
          BY <2>3, <4>1 DEF Hangs, Decode
        <4> QED BY <2>10, <4>1, <4>2 DEF Hangs, Moves
      <3>2. CASE ~exposed
        <4>1. PICK x : /\ Decode(disk) = {x}
                       /\ \/ Decode(seen) = {x}
                          \/ \E z : Decode(seen) = {z} /\ Successor(x, z)
          BY <1>1, <3>2, HeldIs DEF Serving
        <4> QED BY <2>3, <2>10, <4>1 DEF Moves
      <3> QED BY <3>1, <3>2
    <2> QED BY <2>10, <2>11
  <1> QED BY <1>2, <1>3 DEF CommitFlush

-----------------------------------------------------------------------------
(* The theorems *)

\* A fresh medium.
LEMMA InitIInv == StateInit => IInv
  <1> SUFFICES ASSUME StateInit PROVE IInv
    OBVIOUS
  <1>1. \A c \in Copy : disk[c] = {} /\ seen[c] = {}
    BY Layout DEF StateInit
  <1>2. Copies(disk) /\ Copies(seen) /\ Decode(disk) = {}
    BY <1>1 DEF Copies, Decode, Copy
  <1>3. minted \in Identity
    BY SMTT(60), IdsAssumption DEF StateInit, Identity
  <1> QED BY <1>2, <1>3
          DEF StateInit, IInv, Medium, BringUp, Refused, Served, Composing, Serving,
              Establishing, PromisedSurvives, RunningIsWhole

\* Every step keeps the invariant, and moves the record as it may.
LEMMA NextIInv == IInv /\ [StateNext]_stateVars => IInv' /\ Moves
  <1>1. ASSUME IInv, UNCHANGED stateVars PROVE IInv' /\ Moves
    <2>1. UNCHANGED <<seen, disk, pc, work, minted, owner, promised, erasing,
                      cleared, exposed>>
      BY <1>1 DEF stateVars
    <2>2. Medium' /\ BringUp' /\ Refused'
      BY <1>1, <2>1 DEF IInv, Medium, BringUp, Refused
    <2>3. Served'
      BY <1>1, <2>1 DEF IInv, Served, Hangs, Holds, Whole
    <2>4. Composing'
      BY <1>1, <2>1 DEF IInv, Composing, Whole
    <2> QED BY <1>1, <2>1, <2>2, <2>3, <2>4, SameDisk DEF IInv
  <1> QED BY <1>1, PowerCutIInv, RequestResetIInv, WriteBackIInv, BootIInv,
             ClearResetIInv, ClearResetFlushIInv, OverwriteIInv,
             OverwriteFlushIInv, MintIInv, MintFlushIInv, InstallIInv,
             RecordConfigIInv, WriteDocumentIInv, WriteDocumentFlushIInv,
             CommitIInv, CommitFlushIInv DEF StateNext, Domain, Device

\* The store keeps its inductive invariant in every behaviour.
THEOREM Invariance == StateSpec => []IInv
  BY InitIInv, NextIInv, PTL DEF StateSpec

\* What the store reported durable -- an identity, an owner, a document -- is
\* found by every later boot, or a later record made from it is, whatever power
\* cuts and failed transfers interrupt (commit and establish of the store
\* domain), but for the exception the property states.
THEOREM Durability == StateSpec => []PromisedSurvives
  <1>1. IInv => PromisedSurvives BY DEF IInv
  <1> QED BY Invariance, <1>1, PTL

\* The record a boot reads never names a running document that is not whole
\* on the medium (place_document's order of document, flush, record).
THEOREM WholeDocuments == StateSpec => []RunningIsWhole
  <1>1. IInv => RunningIsWhole BY DEF IInv
  <1> QED BY Invariance, <1>1, PTL

\* A successor is what AtomicRecord takes for one.
LEMMA MovesAreAtomic == Moves => Atomic!Next
  <1> SUFFICES ASSUME Moves PROVE Atomic!Next
    OBVIOUS
  <1>1. ASSUME NEW x \in Decode(disk), NEW y \in Decode(disk)',
               Successor(x, y), Decode(disk)' = {y}
        PROVE  Atomic!Next
    <2>1. CASE ~x.owned /\ y = Adopted(x)
      BY <1>1, <2>1 DEF Atomic!Next, Atomic!Adopt
    <2>2. ASSUME NEW s \in Slot, NEW v \in Number, NEW d \in Document,
                 s \notin x.running, ~NotNewest(x, v), y = Recorded(x, s, v, d)
          PROVE  Atomic!Next
      <3>1. Atomic!Record
        BY <1>1, <2>2 DEF Atomic!Record
      <3> QED BY <3>1 DEF Atomic!Next
    <2> QED BY <1>1, <2>1, <2>2 DEF Successor
  <1>2. CASE Decode(disk)' = Decode(disk)
    BY <1>2 DEF Atomic!Next
  <1>3. CASE Decode(disk) = {} /\ \E k \in Identity : Decode(disk)' = {Minted(k)}
    BY <1>3 DEF Atomic!Next, Atomic!MintOne
  <1>4. CASE /\ erasing \/ exposed
             /\ \E r \in Decode(disk) : \A x \in Decode(disk)' :
                  x.id = r.id /\ x.gen < r.gen
    BY <1>4 DEF Atomic!Next, Atomic!Lose
  <1> QED BY <1>1, <1>2, <1>3, <1>4 DEF Moves

\* The store's transfers, write backs and power cuts implement AtomicRecord: one
\* record, replaced whole by its successor, lost only by a reset under way or
\* from the one copy a torn mint left.
THEOREM Refinement == StateSpec => ReplacedWhole
  <1>1. StateInit => Atomic!Init
    <2> SUFFICES ASSUME StateInit PROVE Atomic!Init
      OBVIOUS
    <2>1. disk[CopyA] = {} /\ disk[CopyB] = {}
      BY Layout DEF StateInit, Copy
    <2>2. Decode(disk) = {} BY <2>1 DEF Decode
    <2>3. ~(erasing \/ exposed) BY DEF StateInit
    <2> QED BY <2>2, <2>3 DEF Atomic!Init
  <1>2. IInv /\ [StateNext]_stateVars => [Atomic!Next]_<<Decode(disk), erasing \/ exposed>>
    BY NextIInv, MovesAreAtomic
  <1> QED BY <1>1, <1>2, Invariance, PTL DEF StateSpec, ReplacedWhole, Atomic!Spec
==============================================================================
