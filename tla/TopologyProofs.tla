--------------------------- MODULE TopologyProofs ---------------------------
(***************************************************************************)
(* Proofs about Topology.tla, for any exchanges, queues, bindings and      *)
(* consumers, and any number of losses.                                    *)
(***************************************************************************)
EXTENDS Topology, SequenceTheorems, WellFoundedInduction, TLAPS

-----------------------------------------------------------------------------
(* The names that are kept. *)

\* Induction over the natural numbers, for a set.
LEMMA SetInduction ==
  ASSUME NEW P, 0 \in P, \A n \in Nat : n \in P => n + 1 \in P
  PROVE  Nat \subseteq P
<1> SUFFICES ASSUME Nat \ P # {} PROVE FALSE
  OBVIOUS
<1> DEFINE T == Nat \ P
           R == OpToRel(<, Nat)
<1>1. IsWellFoundedOn(R, Nat)
  BY NatLessThanWellFounded
<1>2. T \subseteq Nat /\ T # {}
  OBVIOUS
<1> HIDE DEF R
<1>3. PICK n \in T : \A m \in T : ~ (<<m, n>> \in R)
  <2> HIDE DEF T
  <2> QED BY <1>1, <1>2, WFMin
<1>4. n # 0 /\ n - 1 \in Nat /\ n - 1 < n /\ (n - 1) + 1 = n
  BY <1>3
<1>5. <<n - 1, n>> \in R
  BY <1>3, <1>4 DEF R, OpToRel
<1>6. n - 1 \in P
  BY <1>3, <1>4, <1>5
<1> QED BY <1>3, <1>4, <1>6

\* The function that Kept computes is the one its definition says.
KeptStep(names, keep, f, n) ==
    IF n = 0 THEN << >>
    ELSE IF names[n] \in keep THEN Append(f[n - 1], names[n]) ELSE f[n - 1]

LEMMA KeptFunction ==
  ASSUME NEW names, NEW keep, Len(names) \in Nat
  PROVE  \E f : /\ f = [n \in 0..Len(names) |-> KeptStep(names, keep, f, n)]
                /\ Kept(names, keep) = f[Len(names)]
<1> DEFINE P == {m \in Nat : \E f : f = [n \in 0..m |-> KeptStep(names, keep, f, n)]}
<1>1. 0 \in P
  <2>1. PICK f : f = [n \in 0..0 |-> << >>]
    OBVIOUS
  <2>2. f = [n \in 0..0 |-> KeptStep(names, keep, f, n)]
    BY <2>1 DEF KeptStep
  <2> QED BY <2>2
<1>2. ASSUME NEW m \in Nat, m \in P PROVE m + 1 \in P
  <2>1. PICK f : f = [n \in 0..m |-> KeptStep(names, keep, f, n)]
    BY <1>2
  <2>2. PICK g : g = [n \in 0..(m + 1) |-> IF n \in 0..m THEN f[n]
                                          ELSE KeptStep(names, keep, f, n)]
    OBVIOUS
  <2>3. ASSUME NEW n \in 0..(m + 1) PROVE g[n] = KeptStep(names, keep, g, n)
    <3>1. CASE n = 0
      BY <2>1, <2>2, <3>1 DEF KeptStep
    <3>2. CASE n # 0
      <4>1. n - 1 \in 0..m /\ g[n - 1] = f[n - 1]
        BY <2>2, <2>3, <3>2
      <4>2. g[n] = KeptStep(names, keep, f, n)
        BY <2>1, <2>2
      <4> QED BY <3>2, <4>1, <4>2 DEF KeptStep
    <3> QED BY <3>1, <3>2
  <2>4. g = [n \in 0..(m + 1) |-> KeptStep(names, keep, g, n)]
    BY <2>2, <2>3
  <2> QED BY <2>4
<1>3. Len(names) \in P
  <2> HIDE DEF P
  <2> QED BY <1>1, <1>2, SetInduction
<1> DEFINE kept[n \in 0..Len(names)] ==
             IF n = 0 THEN << >>
             ELSE IF names[n] \in keep THEN Append(kept[n - 1], names[n])
             ELSE kept[n - 1]
<1>4. kept = [n \in 0..Len(names) |-> KeptStep(names, keep, kept, n)]
  BY <1>3 DEF KeptStep
<1>5. Kept(names, keep) = kept[Len(names)]
  BY DEF Kept
<1> QED BY <1>4, <1>5

\* What appending does to the elements of a sequence.
LEMMA ToSetAppend ==
  ASSUME NEW S, NEW s \in Seq(S), NEW e
  PROVE  ToSet(Append(s, e)) = ToSet(s) \cup {e}
<1>1. /\ Len(s) \in Nat /\ DOMAIN s = 1..Len(s) /\ DOMAIN Append(s, e) = 1..(Len(s) + 1)
      /\ \A i \in 1..Len(s) : Append(s, e)[i] = s[i]
      /\ Append(s, e)[Len(s) + 1] = e
  BY AppendProperties
<1>2. \A i \in 1..(Len(s) + 1) : i \in 1..Len(s) \/ i = Len(s) + 1
  BY <1>1
<1> QED BY <1>1, <1>2 DEF ToSet

\* Kept keeps exactly what it is told to.
LEMMA KeptProperties ==
  ASSUME NEW S, NEW names \in Seq(S), NEW keep
  PROVE  /\ Kept(names, keep) \in Seq(S)
         /\ ToSet(Kept(names, keep)) = ToSet(names) \cap keep
<1>1. Len(names) \in Nat /\ DOMAIN names = 1..Len(names)
  OBVIOUS
<1>2. PICK f : /\ f = [n \in 0..Len(names) |-> KeptStep(names, keep, f, n)]
               /\ Kept(names, keep) = f[Len(names)]
  BY <1>1, KeptFunction
<1> DEFINE P == {n \in Nat : n <= Len(names) =>
                   /\ f[n] \in Seq(S)
                   /\ ToSet(f[n]) = {names[i] : i \in 1..n} \cap keep}
<1>3. 0 \in P
  <2>1. f[0] = << >>
    BY <1>1, <1>2 DEF KeptStep
  <2>2. << >> \in Seq(S) /\ ToSet(<< >>) = {} /\ {names[i] : i \in 1..0} = {}
    BY DEF ToSet
  <2> QED BY <2>1, <2>2
<1>4. ASSUME NEW n \in Nat, n \in P PROVE n + 1 \in P
  <2> SUFFICES ASSUME n + 1 <= Len(names)
               PROVE  /\ f[n + 1] \in Seq(S)
                      /\ ToSet(f[n + 1]) = {names[i] : i \in 1..(n + 1)} \cap keep
    OBVIOUS
  <2>1. /\ f[n] \in Seq(S)
        /\ ToSet(f[n]) = {names[i] : i \in 1..n} \cap keep
    BY <1>1, <1>4
  <2>2. f[n + 1] = IF names[n + 1] \in keep THEN Append(f[n], names[n + 1]) ELSE f[n]
    <3>1. n + 1 \in 0..Len(names) /\ n + 1 # 0 /\ (n + 1) - 1 = n
      BY <1>1
    <3> QED BY <1>2, <3>1 DEF KeptStep
  <2>3. names[n + 1] \in S
    BY <1>1, ElementOfSeq
  <2>4. {names[i] : i \in 1..(n + 1)} = {names[i] : i \in 1..n} \cup {names[n + 1]}
    <3>1. \A i : i \in 1..(n + 1) <=> i \in 1..n \/ i = n + 1
      OBVIOUS
    <3> QED BY <3>1
  <2>5. CASE names[n + 1] \in keep
    <3>1. f[n + 1] = Append(f[n], names[n + 1])
      BY <2>2, <2>5
    <3>2. ToSet(f[n + 1]) = ToSet(f[n]) \cup {names[n + 1]}
      BY <2>1, <3>1, ToSetAppend
    <3>3. f[n + 1] \in Seq(S)
      BY <2>1, <2>3, <3>1, AppendProperties
    <3> QED BY <2>1, <2>4, <2>5, <3>2, <3>3
  <2>6. CASE names[n + 1] \notin keep
    BY <2>1, <2>2, <2>4, <2>6
  <2> QED BY <2>5, <2>6
<1>5. Len(names) \in P
  <2> HIDE DEF P
  <2> QED BY <1>1, <1>3, <1>4, SetInduction
<1> QED BY <1>1, <1>2, <1>5 DEF ToSet

LEMMA ToSetTypes == ASSUME NEW S, NEW s \in Seq(S) PROVE ToSet(s) \subseteq S
BY ElementOfSeq DEF ToSet

LEMMA ToSetConcat ==
  ASSUME NEW S, NEW s \in Seq(S), NEW t \in Seq(S)
  PROVE  ToSet(s \o t) = ToSet(s) \cup ToSet(t)
<1>1. /\ Len(s) \in Nat /\ DOMAIN s = 1..Len(s)
      /\ Len(t) \in Nat /\ DOMAIN t = 1..Len(t)
      /\ DOMAIN (s \o t) = 1..(Len(s) + Len(t))
      /\ \A i \in 1..(Len(s) + Len(t)) :
            (s \o t)[i] = IF i <= Len(s) THEN s[i] ELSE t[i - Len(s)]
  BY ConcatProperties
<1>2. \A i \in 1..(Len(s) + Len(t)) : IF i <= Len(s) THEN i \in 1..Len(s)
                                       ELSE i - Len(s) \in 1..Len(t)
  BY <1>1
<1>3. ToSet(s \o t) \subseteq ToSet(s) \cup ToSet(t)
  BY <1>1, <1>2 DEF ToSet
<1>4. ToSet(s) \subseteq ToSet(s \o t)
  <2>1. \A i \in 1..Len(s) : i \in 1..(Len(s) + Len(t)) /\ i <= Len(s)
    BY <1>1
  <2> QED BY <1>1, <2>1 DEF ToSet
<1>5. ToSet(t) \subseteq ToSet(s \o t)
  <2>1. \A i \in 1..Len(t) : /\ Len(s) + i \in 1..(Len(s) + Len(t))
                            /\ ~(Len(s) + i <= Len(s)) /\ (Len(s) + i) - Len(s) = i
    BY <1>1
  <2> QED BY <1>1, <2>1 DEF ToSet
<1> QED BY <1>3, <1>4, <1>5

LEMMA ToSetTail ==
  ASSUME NEW S, NEW s \in Seq(S), s # << >>
  PROVE  /\ Head(s) \in S /\ Head(s) \in ToSet(s)
         /\ Tail(s) \in Seq(S)
         /\ ToSet(s) = {Head(s)} \cup ToSet(Tail(s))
<1>1. /\ Len(s) \in Nat \ {0} /\ DOMAIN s = 1..Len(s) /\ Head(s) = s[1]
      /\ Head(s) \in S /\ Tail(s) \in Seq(S)
      /\ DOMAIN Tail(s) = 1..(Len(s) - 1)
      /\ \A i \in 1..(Len(s) - 1) : Tail(s)[i] = s[i + 1]
  BY HeadTailProperties
<1>2. \A i \in 1..Len(s) : i = 1 \/ (i - 1 \in 1..(Len(s) - 1) /\ (i - 1) + 1 = i)
  BY <1>1
<1>3. 1 \in 1..Len(s) /\ \A i \in 1..(Len(s) - 1) : i + 1 \in 1..Len(s)
  BY <1>1
<1>4. ToSet(s) \subseteq {Head(s)} \cup ToSet(Tail(s))
  <2> SUFFICES ASSUME NEW i \in 1..Len(s), i # 1 PROVE s[i] \in ToSet(Tail(s))
    BY <1>1 DEF ToSet
  <2>1. i - 1 \in DOMAIN Tail(s) /\ Tail(s)[i - 1] = s[i]
    BY <1>1, <1>2
  <2> QED BY <2>1 DEF ToSet
<1>5. {Head(s)} \cup ToSet(Tail(s)) \subseteq ToSet(s)
  BY <1>1, <1>3 DEF ToSet
<1> QED BY <1>1, <1>4, <1>5

-----------------------------------------------------------------------------
(* The invariant. *)

\* The exchanges and queues that a restore declares when their object lives.
Names == ToSet(exchanges) \cup ToSet(queues)

\* Whose binding or consumer r is.
ObjectOf(r) == IF r \in Bindings THEN r.dest ELSE r.queue

\* TypeOK, but for the sequences.
SetTypes ==
    /\ exists \subseteq Items
    /\ bound \subseteq Bindings
    /\ consuming \subseteq Consumers
    /\ channel \in {"open", "lost", "restoring"}
    /\ steps \subseteq Bindings \cup Consumers
    /\ held \subseteq Items
    /\ detached \subseteq held
    /\ recorded \subseteq Bindings \cup Consumers
    /\ \A r \in recorded : ObjectOf(r) \in held
    /\ prefetch \in Nat
    /\ qos \in Nat

HistoryTypes ==
    /\ restorer \in Restorers
    /\ wants \subseteq Bindings \cup Consumers
    /\ superseded \subseteq wants \cap Bindings
    /\ absent \subseteq Items \cup Bindings \cup Consumers
    /\ revivable \subseteq absent
    /\ losses \in 0..MaxLosses
    /\ setbacks \in 0..MaxSetbacks

SeqTypes == todo \in Seq(Items) /\ exchanges \in Seq(Exchanges) /\ queues \in Seq(Queues)

\* What is bound and consumed next belongs to an object that lives, and the next
\* objects are those of the channel's names.
StepsHeld ==
    /\ \A r \in steps : ObjectOf(r) \in held
    /\ ToSet(todo) \subseteq Names

\* Nothing of a restore outlives it.
IdleRestore == channel # "restoring" => todo = << >> /\ steps = {}

\* What the user never made or removed, but for what a restore makes again.
Away == absent \ revivable

\* It is recorded nowhere, and nothing that is left of a restore makes it again; a
\* deleted exchange that is recorded has no channel to ask.
RemovedIsGone ==
    /\ Away \cap recorded = {}
    /\ Away \cap steps = {}
    /\ \A i \in Away \cap Names : i \in held => i \in detached
    /\ \A i \in Away \cap ToSet(todo) : i \in detached

\* The channel knows the objects that live, but for those of deleted ones.
HeldIsNamed == held \subseteq NotRobust \cup Names \cup Away

\* What the user wants belongs to an object that the channel knows, and is recorded
\* there unless another binding has taken its record.
WantedIsRecorded ==
    /\ \A w \in wants : Robust(w) /\ ObjectOf(w) \in Names
    /\ wants \ superseded \subseteq recorded

\* On a channel that is open or being restored all that is wanted is there, or
\* the restore has it ahead.
WantedSoon ==
    channel # "lost" =>
       /\ prefetch = qos
       /\ \A w \in wants \ superseded :
             w \in bound \cup consuming \cup steps \/ ObjectOf(w) \in ToSet(todo)

TopologyInv ==
    /\ SetTypes
    /\ SeqTypes
    /\ HistoryTypes
    /\ StepsHeld
    /\ IdleRestore
    /\ RemovedIsGone
    /\ RemovedStaysAway
    /\ HeldIsNamed
    /\ WantedIsRecorded
    /\ WantedSoon

\* Bindings, consumers and their objects.
LEMMA Objects ==
  /\ Bindings \cap Consumers = {}
  /\ Items \cap Bindings = {} /\ Items \cap Consumers = {}
  /\ \A r \in Bindings \cup Consumers : \A i : r \in Of(i) <=> ObjectOf(r) = i
  /\ \A i : Of(i) \subseteq Touching(i) /\ Of(i) \subseteq Bindings \cup Consumers
  /\ \A b \in Bindings : /\ ObjectOf(b) = b.dest
                        /\ b \in SameRecord(b) /\ SameRecord(b) \subseteq Bindings
                        /\ \A a \in SameRecord(b) : ObjectOf(a) = ObjectOf(b)
  /\ \A c \in Consumers : ObjectOf(c) = c.queue
<1>1. Bindings \cap Consumers = {}
  <2> SUFFICES ASSUME NEW r \in Bindings, r \in Consumers PROVE FALSE
    OBVIOUS
  <2>1. DOMAIN r = {"source", "key", "dest"} /\ DOMAIN r = {"queue", "tag"}
    BY TopologyAssumption
  <2> QED BY <2>1
<1>2. Items \cap Bindings = {} /\ Items \cap Consumers = {}
  BY TopologyAssumption
<1>3. \A b \in Bindings : ObjectOf(b) = b.dest
  BY DEF ObjectOf
<1>4. \A c \in Consumers : ObjectOf(c) = c.queue
  BY <1>1 DEF ObjectOf
<1>5. \A r \in Bindings \cup Consumers : \A i : r \in Of(i) <=> ObjectOf(r) = i
  BY <1>1, <1>3, <1>4 DEF Of, OfDest, OfQueue
<1>6. \A i : Of(i) \subseteq Touching(i) /\ Of(i) \subseteq Bindings \cup Consumers
  BY DEF Of, OfDest, OfQueue, Touching
<1>7. \A b \in Bindings : /\ b \in SameRecord(b) /\ SameRecord(b) \subseteq Bindings
                        /\ \A a \in SameRecord(b) : ObjectOf(a) = ObjectOf(b)
  BY <1>3 DEF SameRecord, OfDest
<1> QED BY <1>1, <1>2, <1>3, <1>4, <1>5, <1>6, <1>7

LEMMA RecordedTypes ==
  SetTypes /\ SeqTypes /\ HistoryTypes => TypeOK
<1>1. ASSUME NEW h, NEW rs, rs \subseteq Bindings \cup Consumers,
             \A r \in rs : ObjectOf(r) \in h
      PROVE  rs \subseteq UNION {Of(i) : i \in h}
  BY <1>1, Objects
<1> QED BY <1>1 DEF SetTypes, SeqTypes, HistoryTypes, TypeOK

LEMMA NamesTypes ==
  ASSUME SeqTypes
  PROVE  /\ ToSet(exchanges) \subseteq Exchanges /\ ToSet(queues) \subseteq Queues
         /\ Names \subseteq Items /\ ToSet(todo) \subseteq Items
         /\ Exchanges \cap Queues = {}
BY ToSetTypes, TopologyAssumption DEF SeqTypes, Names, Items

LEMMA ToSetEmpty == ToSet(<< >>) = {}
BY DEF ToSet

-----------------------------------------------------------------------------
(* The history. *)

\* What is made, removed or revived is so in what is away.
LEMMA AwayOf ==
  ASSUME NEW r
  PROVE  /\ IsMade(r) => Away' = Away \ {r}
         /\ IsRemoved(r) => Away' = Away \cup {r}
         /\ Revives(r) => Away' = IF r \in steps THEN Away \ {r} ELSE Away \cup {r}
<1>1. IsMade(r) => Away' = Away \ {r}
  BY DEF IsMade, Away
<1>2. IsRemoved(r) => Away' = Away \cup {r}
  BY DEF IsRemoved, Away
<1>3. CASE r \in steps
  BY <1>1, <1>2, <1>3 DEF Revives, Away
<1>4. CASE r \notin steps
  BY <1>1, <1>2, <1>4 DEF Revives, Away
<1> QED BY <1>3, <1>4

LEMMA AwayTypes ==
  ASSUME HistoryTypes, NEW r \in Items \cup Bindings \cup Consumers,
         IsMade(r) \/ IsRemoved(r) \/ Revives(r)
  PROVE  absent' \subseteq Items \cup Bindings \cup Consumers /\ revivable' \subseteq absent'
<1>1. CASE IsMade(r) \/ IsRemoved(r)
  BY <1>1 DEF HistoryTypes, IsMade, IsRemoved
<1>2. CASE Revives(r)
  BY <1>2 DEF HistoryTypes, Revives
<1> QED BY <1>1, <1>2

LEMMA SameAway == ASSUME UNCHANGED <<absent, revivable>> PROVE Away' = Away
BY DEF Away

LEMMA CountedTypes ==
  ASSUME HistoryTypes, Counted \/ CountedUnderRestore \/ UNCHANGED counted
  PROVE  losses' \in 0..MaxLosses /\ setbacks' \in 0..MaxSetbacks
<1>1. CASE Counted
  <2>1. CASE channel = "open"
    BY <1>1, <2>1, TopologyAssumption DEF HistoryTypes, Counted
  <2>2. CASE channel # "open"
    BY <1>1, <2>2, TopologyAssumption DEF HistoryTypes, Counted
  <2> QED BY <2>1, <2>2
<1>2. CASE UNCHANGED counted
  BY <1>2 DEF HistoryTypes, counted
<1> QED BY <1>1, <1>2 DEF CountedUnderRestore

-----------------------------------------------------------------------------
(* Losing the channel. *)

\* What all steps have in common that lose the channel.
Gone ==
    /\ channel' = "lost" /\ todo' = << >> /\ steps' = {}
    /\ prefetch' \in Nat /\ consuming' \subseteq consuming
    /\ exists' \subseteq Items /\ bound' \subseteq Bindings
    /\ qos' \in Nat
    /\ UNCHANGED <<held, detached, exchanges, queues, recorded, wants, superseded>>
    /\ HistoryTypes'
    /\ Away' \subseteq Away /\ Away \cap held \subseteq Away'
    /\ Away' \cap (exists' \cup bound') = {}

LEMMA GoneStep == ASSUME TopologyInv, Gone PROVE TopologyInv'
<1>1. ToSet(todo') = {} /\ Names' = Names
  BY ToSetEmpty DEF Gone, Names
<1>2. SetTypes' /\ SeqTypes' /\ HistoryTypes'
  BY DEF TopologyInv, SetTypes, SeqTypes, Gone
<1>3. StepsHeld' /\ IdleRestore' /\ WantedSoon'
  BY <1>1 DEF StepsHeld, IdleRestore, WantedSoon, Gone
<1>4. RemovedIsGone' /\ RemovedStaysAway'
  BY <1>1 DEF TopologyInv, Gone, RemovedIsGone, RemovedStaysAway, Away
<1>5. HeldIsNamed' /\ WantedIsRecorded'
  BY <1>1 DEF TopologyInv, Gone, HeldIsNamed, WantedIsRecorded, Robust
<1> QED BY <1>2, <1>3, <1>4, <1>5 DEF TopologyInv

LEMMA ChannelGoneState ==
  ASSUME TopologyInv, ChannelGone
  PROVE  /\ channel' = "lost" /\ todo' = << >> /\ steps' = {} /\ prefetch' \in Nat
         /\ losses' \in 0..MaxLosses /\ setbacks' \in 0..MaxSetbacks
BY CountedTypes DEF TopologyInv, ChannelGone

LEMMA Successors == Successor \in Restorers /\ "factory" \in Restorers
BY DEF Successor, Restorers

\* The history does not change but for who restores and the counts.
LEMMA SameHistory ==
  ASSUME HistoryTypes, UNCHANGED history, restorer' \in Restorers,
         losses' \in 0..MaxLosses, setbacks' \in 0..MaxSetbacks
  PROVE  HistoryTypes' /\ Away' = Away /\ UNCHANGED <<wants, superseded>>
BY DEF HistoryTypes, history, Away

\* The broker forgets something.
LEMMA ForgettingIsGone ==
  ASSUME TopologyInv, UNCHANGED <<objects, history>>, restorer' \in Restorers,
         losses' \in 0..MaxLosses, setbacks' \in 0..MaxSetbacks,
         channel' = "lost", todo' = << >>, steps' = {}, prefetch' \in Nat,
         consuming' \subseteq consuming, exists' \subseteq exists, bound' \subseteq bound
  PROVE  Gone
<1>1. HistoryTypes' /\ Away' = Away /\ UNCHANGED <<wants, superseded>>
  BY SameHistory DEF TopologyInv
<1> QED BY <1>1 DEF TopologyInv, SetTypes, RemovedStaysAway, Away, Gone, objects

LEMMA RefusedIsGone ==
  ASSUME TopologyInv, NEW possible, Refused(possible)
  PROVE  Gone
BY ChannelGoneState, Successors, ForgettingIsGone DEF Refused

\* The broker may have made what is not held: then it is not away any more.
LEMMA InterruptedIsGone ==
  ASSUME TopologyInv, NEW new, NEW exists2, NEW bound2, Interrupted(new, exists2, bound2),
         exists2 \subseteq Items, bound2 \subseteq Bindings, new \cap held = {},
         (exists2 \cup bound2) \ new \subseteq exists \cup bound
  PROVE  Gone
<1>1. Away' = Away \ new
  BY DEF Interrupted, Away
<1>2. HistoryTypes'
  <2>1. restorer' \in Restorers
    BY Successors DEF Interrupted
  <2>2. losses' \in 0..MaxLosses /\ setbacks' \in 0..MaxSetbacks
    BY ChannelGoneState DEF Interrupted
  <2> QED BY <2>1, <2>2 DEF TopologyInv, HistoryTypes, Interrupted
<1>3. consuming' = {} /\ exists' = exists2 /\ bound' = bound2
      /\ UNCHANGED <<objects, wants, superseded>>
      /\ channel' = "lost" /\ todo' = << >> /\ steps' = {} /\ prefetch' \in Nat
  BY ChannelGoneState DEF Interrupted
<1> QED BY <1>1, <1>2, <1>3 DEF TopologyInv, SetTypes, RemovedStaysAway, Away, Gone, objects

LEMMA LostStep == ASSUME TopologyInv, Lost PROVE TopologyInv'
<1>1. exists' \subseteq exists /\ bound' \subseteq bound /\ consuming' = {}
      /\ restorer' \in Restorers /\ UNCHANGED <<objects, history>>
  BY Successors DEF Lost, BrokerForgets
<1>2. Gone
  BY <1>1, ChannelGoneState, ForgettingIsGone DEF Lost
<1> QED BY <1>2, GoneStep

LEMMA LostAfterwardsStep == ASSUME TopologyInv, LostAfterwards PROVE TopologyInv'
<1>1. exists' \subseteq exists /\ bound' \subseteq bound /\ consuming' = consuming
      /\ restorer' \in Restorers /\ UNCHANGED <<objects, history, counted>>
      /\ channel' = "lost" /\ todo' = << >> /\ steps' = {} /\ prefetch' \in Nat
  BY Successors DEF LostAfterwards, BrokerForgets, TopologyInv, IdleRestore, SetTypes
<1>2. Gone
  BY <1>1, CountedTypes, ForgettingIsGone DEF TopologyInv
<1> QED BY <1>2, GoneStep

LEMMA RestoreFailsStep == ASSUME TopologyInv, RestoreFails PROVE TopologyInv'
<1>1. exists' \subseteq exists /\ bound' \subseteq bound /\ consuming' = {}
      /\ restorer' \in Restorers /\ UNCHANGED <<objects, history, counted>>
      /\ channel' = "lost" /\ todo' = << >> /\ steps' = {} /\ prefetch' \in Nat
  BY Successors DEF RestoreFails, RestoreRaises, BrokerForgets
<1>2. Gone
  BY <1>1, CountedTypes, ForgettingIsGone DEF TopologyInv
<1> QED BY <1>2, GoneStep

\* set_qos() records the prefetch count first, and so a restore sets it.
LEMMA SetQosStep == ASSUME TopologyInv, NEW n \in Prefetches, SetQos(n) PROVE TopologyInv'
<1>1. n \in Nat /\ qos' = n /\ UNCHANGED <<held, detached, exchanges, queues, recorded, history>>
  BY TopologyAssumption DEF SetQos
<1>2. CASE ChannelGone /\ restorer' \in {Successor, "factory"} /\ consuming' = {}
           /\ UNCHANGED <<exists, bound>>
  <2>1. HistoryTypes' /\ Away' = Away /\ UNCHANGED <<wants, superseded>>
    BY <1>1, <1>2, ChannelGoneState, Successors, SameHistory DEF TopologyInv
  <2>2. Gone
    BY <1>1, <1>2, <2>1, ChannelGoneState DEF TopologyInv, SetTypes, RemovedStaysAway,
       Away, Gone
  <2> QED BY <2>2, GoneStep
<1>3. CASE BasicQos(n) /\ UNCHANGED <<exists, bound, consuming, restoring, counted>>
  <2>1. HistoryTypes' /\ Away' = Away /\ UNCHANGED <<wants, superseded>>
    BY <1>1, <1>3, CountedTypes, SameHistory DEF TopologyInv, HistoryTypes, restoring
  <2>2. /\ prefetch' = n /\ qos' = n
        /\ UNCHANGED <<exists, bound, consuming, channel, todo, steps, held,
                       detached, exchanges, queues, recorded, wants, superseded>>
    BY <1>1, <1>3, <2>1 DEF BasicQos, restoring
  <2>3. SetTypes' /\ SeqTypes' /\ StepsHeld' /\ IdleRestore' /\ WantedSoon'
    BY <1>1, <2>2 DEF TopologyInv, SetTypes, SeqTypes, StepsHeld, IdleRestore, WantedSoon,
       Names
  <2>4. RemovedIsGone' /\ RemovedStaysAway' /\ HeldIsNamed' /\ WantedIsRecorded'
    BY <2>1, <2>2 DEF TopologyInv, RemovedIsGone, RemovedStaysAway, Away, HeldIsNamed,
       WantedIsRecorded, Names, Robust
  <2> QED BY <2>1, <2>3, <2>4 DEF TopologyInv
<1> QED BY <1>2, <1>3 DEF SetQos

-----------------------------------------------------------------------------
(* The methods of the channel. *)

\* A name that is declared is known, unless it is not robust.
LEMMA NamedProperties ==
  ASSUME NEW S, NEW names \in Seq(S), NEW i \in S
  PROVE  /\ Named(names, i) \in Seq(S)
         /\ ToSet(names) \subseteq ToSet(Named(names, i))
         /\ ToSet(Named(names, i)) \subseteq ToSet(names) \cup {i}
         /\ i \notin NotRobust => i \in ToSet(Named(names, i))
BY ToSetAppend, AppendProperties DEF Named

LEMMA NotMadeStep ==
  ASSUME TopologyInv, NEW i \in Items, i \notin held, NotMade(i)
  PROVE  TopologyInv'
<1>1. CASE Refused(CanDeclare(i))
  BY <1>1, RefusedIsGone, GoneStep
<1>2. CASE Interrupted({i}, exists \cup {i}, bound)
  <2>1. exists \subseteq Items /\ bound \subseteq Bindings
    BY DEF TopologyInv, SetTypes
  <2>2. Gone
    BY <1>2, <2>1, InterruptedIsGone
  <2> QED BY <2>2, GoneStep
<1> QED BY <1>1, <1>2 DEF NotMade

LEMMA MadeStep ==
  ASSUME TopologyInv, Ready, NEW i \in Items, i \notin held, Made(i), SeqTypes',
         Names \subseteq Names', Names' \subseteq Names \cup {i},
         i \in NotRobust \cup Names'
  PROVE  TopologyInv'
<1>1. /\ exists' = exists \cup {i} /\ held' = held \cup {i}
      /\ detached' = detached \ {i}
      /\ UNCHANGED <<bound, consuming, prefetch, channel, restorer, todo, steps,
                     recorded, qos, wants, superseded, losses, setbacks>>
  BY DEF Made, restoring, counted
<1>2. todo = << >> /\ steps = {} /\ ToSet(todo) = {} /\ ToSet(todo') = {}
  BY <1>1, ToSetEmpty DEF TopologyInv, IdleRestore, Ready
<1>3. Away' = Away \ {i} /\ HistoryTypes'
  <2>1. IsMade(i) /\ HistoryTypes
    BY DEF Made, TopologyInv
  <2>2. Away' = Away \ {i} /\ absent' \subseteq Items \cup Bindings \cup Consumers
        /\ revivable' \subseteq absent'
    BY <2>1, AwayOf, AwayTypes
  <2> QED BY <1>1, <2>1, <2>2 DEF HistoryTypes
<1>4. SetTypes'
  BY <1>1 DEF TopologyInv, SetTypes
<1>5. StepsHeld' /\ IdleRestore' /\ WantedSoon'
  BY <1>1, <1>2 DEF TopologyInv, StepsHeld, IdleRestore, WantedSoon
<1>6. RemovedIsGone' /\ RemovedStaysAway'
  BY <1>1, <1>2, <1>3, Objects DEF TopologyInv, SetTypes, RemovedIsGone, RemovedStaysAway,
     Away
<1>7. HeldIsNamed' /\ WantedIsRecorded'
  BY <1>1, <1>3 DEF TopologyInv, HeldIsNamed, WantedIsRecorded, Robust
<1> QED BY <1>3, <1>4, <1>5, <1>6, <1>7 DEF TopologyInv

LEMMA DeclareStep ==
  /\ \A x \in Exchanges : TopologyInv /\ DeclareExchange(x) => TopologyInv'
  /\ \A q \in Queues : TopologyInv /\ DeclareQueue(q) => TopologyInv'
<1>1. ASSUME TopologyInv, NEW x \in Exchanges, DeclareExchange(x) PROVE TopologyInv'
  <2>1. x \in Items /\ x \notin held /\ Ready /\ SeqTypes
    BY <1>1 DEF DeclareExchange, Items, TopologyInv
  <2>2. CASE Made(x) /\ exchanges' = Named(exchanges, x) /\ UNCHANGED queues
    <3>1. SeqTypes' /\ Names \subseteq Names' /\ Names' \subseteq Names \cup {x}
          /\ x \in NotRobust \cup Names'
      BY <2>1, <2>2, NamedProperties DEF SeqTypes, Names, Made, restoring
    <3> QED BY <1>1, <2>1, <2>2, <3>1, MadeStep
  <2> QED BY <1>1, <2>1, <2>2, NotMadeStep DEF DeclareExchange
<1>2. ASSUME TopologyInv, NEW q \in Queues, DeclareQueue(q) PROVE TopologyInv'
  <2>1. q \in Items /\ q \notin held /\ Ready /\ SeqTypes
    BY <1>2 DEF DeclareQueue, Items, TopologyInv
  <2>2. CASE Made(q) /\ queues' = Named(queues, q) /\ UNCHANGED exchanges
    <3>1. SeqTypes' /\ Names \subseteq Names' /\ Names' \subseteq Names \cup {q}
          /\ q \in NotRobust \cup Names'
      BY <2>1, <2>2, NamedProperties DEF SeqTypes, Names, Made, restoring
    <3> QED BY <1>2, <2>1, <2>2, <3>1, MadeStep
  <2> QED BY <1>2, <2>1, <2>2, NotMadeStep DEF DeclareQueue
<1> QED BY <1>1, <1>2

\* A deletion that is interrupted may have been done.
LEMMA InterruptedDeletion ==
  ASSUME TopologyInv, NEW i \in Items,
         Interrupted({}, exists \ {i}, bound \ Touching(i))
  PROVE  TopologyInv'
<1>1. exists \subseteq Items /\ bound \subseteq Bindings
  BY DEF TopologyInv, SetTypes
<1>2. PICK e, b : e = exists \ {i} /\ b = bound \ Touching(i)
  OBVIOUS
<1>3. Gone
  BY <1>1, <1>2, InterruptedIsGone
<1> QED BY <1>3, GoneStep

LEMMA DeletedByNameStep ==
  ASSUME TopologyInv, Ready, NEW i \in Items, DeletedByName(i), SeqTypes',
         Names' = Names \ {i}
  PROVE  TopologyInv'
<1>1. /\ exists' = exists \ {i} /\ bound' = bound \ Touching(i)
      /\ consuming' = consuming \ Touching(i)
      /\ wants' = wants \ Touching(i) /\ superseded' = superseded \ Touching(i)
      /\ UNCHANGED <<prefetch, channel, restorer, todo, steps, held, detached,
                     recorded, qos, losses, setbacks>>
  BY DEF DeletedByName, Deleted, restoring, counted
<1>2. todo = << >> /\ steps = {} /\ ToSet(todo) = {} /\ ToSet(todo') = {}
  BY <1>1, ToSetEmpty DEF TopologyInv, IdleRestore, Ready
<1>3. Away' = Away \cup {i} /\ HistoryTypes'
  <2>1. IsRemoved(i) /\ HistoryTypes
    BY DEF DeletedByName, TopologyInv
  <2>2. Away' = Away \cup {i} /\ absent' \subseteq Items \cup Bindings \cup Consumers
        /\ revivable' \subseteq absent'
    BY <2>1, AwayOf, AwayTypes
  <2> QED BY <1>1, <2>1, <2>2 DEF HistoryTypes
<1>4. SetTypes'
  BY <1>1 DEF TopologyInv, SetTypes
<1>5. StepsHeld' /\ IdleRestore' /\ WantedSoon'
  BY <1>1, <1>2 DEF TopologyInv, StepsHeld, IdleRestore, WantedSoon
<1>6. RemovedIsGone' /\ RemovedStaysAway'
  BY <1>1, <1>2, <1>3, Objects DEF TopologyInv, SetTypes, RemovedIsGone, RemovedStaysAway,
     Away
<1>7. \A w \in wants' : w \in wants /\ ObjectOf(w) # i
  BY <1>1, Objects DEF TopologyInv, HistoryTypes
<1>8. wants' \ superseded' \subseteq wants \ superseded
  BY <1>1
<1>9. HeldIsNamed' /\ WantedIsRecorded'
  BY <1>1, <1>3, <1>7, <1>8 DEF TopologyInv, HeldIsNamed, WantedIsRecorded, Robust
<1> QED BY <1>3, <1>4, <1>5, <1>6, <1>9 DEF TopologyInv

LEMMA DeleteByNameStep ==
  /\ \A x \in Exchanges : TopologyInv /\ ExchangeDelete(x) => TopologyInv'
  /\ \A q \in Queues : TopologyInv /\ QueueDelete(q) => TopologyInv'
<1>1. ASSUME TopologyInv, NEW x \in Exchanges, ExchangeDelete(x) PROVE TopologyInv'
  <2>1. x \in Items /\ Ready /\ SeqTypes
    BY <1>1 DEF ExchangeDelete, Items, TopologyInv
  <2>2. CASE DeletedByName(x) /\ exchanges' = Kept(exchanges, Exchanges \ {x})
             /\ UNCHANGED queues
    <3>1. exchanges' \in Seq(Exchanges)
          /\ ToSet(exchanges') = ToSet(exchanges) \cap (Exchanges \ {x})
      BY <2>1, <2>2, KeptProperties DEF SeqTypes
    <3>2. Names' = Names \ {x}
      BY <2>1, <2>2, <3>1, NamesTypes DEF Names
    <3>3. SeqTypes'
      BY <2>1, <2>2, <3>1 DEF SeqTypes, DeletedByName, restoring
    <3> QED BY <1>1, <2>1, <2>2, <3>2, <3>3, DeletedByNameStep
  <2> QED BY <1>1, <2>1, <2>2, InterruptedDeletion DEF ExchangeDelete
<1>2. ASSUME TopologyInv, NEW q \in Queues, QueueDelete(q) PROVE TopologyInv'
  <2>1. q \in Items /\ Ready /\ SeqTypes
    BY <1>2 DEF QueueDelete, Items, TopologyInv
  <2>2. CASE DeletedByName(q) /\ queues' = Kept(queues, Queues \ {q})
             /\ UNCHANGED exchanges
    <3>1. queues' \in Seq(Queues)
          /\ ToSet(queues') = ToSet(queues) \cap (Queues \ {q})
      BY <2>1, <2>2, KeptProperties DEF SeqTypes
    <3>2. Names' = Names \ {q}
      BY <2>1, <2>2, <3>1, NamesTypes DEF Names
    <3>3. SeqTypes'
      BY <2>1, <2>2, <3>1 DEF SeqTypes, DeletedByName, restoring
    <3> QED BY <1>2, <2>1, <2>2, <3>2, <3>3, DeletedByNameStep
  <2> QED BY <1>2, <2>1, <2>2, InterruptedDeletion DEF QueueDelete
<1> QED BY <1>1, <1>2

-----------------------------------------------------------------------------
(* The methods of exchanges and queues. *)

\* What happens to the sequences in most steps.
LEMMA SameNames ==
  ASSUME SeqTypes, UNCHANGED <<todo, exchanges, queues>>
  PROVE  SeqTypes' /\ Names' = Names /\ ToSet(todo') = ToSet(todo)
BY DEF SeqTypes, Names

\* A binding or consumer that is made is recorded; what it takes the record of is
\* superseded.
SupersededBy(r) ==
    IF r \in Consumers \/ r \in NotRobust THEN superseded
    ELSE (superseded \cup (SameRecord(r) \cap wants)) \ {r}

LEMMA RecordKeeps ==
  ASSUME HistoryTypes, WantedIsRecorded, NEW r \in Bindings \cup Consumers
  PROVE  /\ Record(r) \subseteq recorded \cup {r}
         /\ Wanted(r) \subseteq wants \cup {r} /\ wants \subseteq Wanted(r)
         /\ SupersededBy(r) \subseteq Wanted(r) \cap Bindings
         /\ \A w \in Wanted(r) : Robust(w)
         /\ \A w \in Wanted(r) \ SupersededBy(r) : w \in Record(r)
         /\ \A w \in Wanted(r) \ SupersededBy(r) : w \in wants \ superseded \/ w = r
<1>1. /\ Wanted(r) \subseteq wants \cup {r} /\ wants \subseteq Wanted(r)
      /\ \A w \in Wanted(r) : Robust(w)
  BY DEF Wanted, WantedIsRecorded
<1>2. SupersededBy(r) \subseteq wants \cap Bindings /\ superseded \ {r} \subseteq SupersededBy(r)
  <2>1. superseded \subseteq wants \cap Bindings
    BY DEF HistoryTypes
  <2>2. CASE r \in Consumers \/ r \in NotRobust
    BY <2>1, <2>2 DEF SupersededBy
  <2>3. CASE ~(r \in Consumers \/ r \in NotRobust)
    <3>1. SameRecord(r) \subseteq Bindings
      BY <2>3, Objects
    <3> QED BY <2>1, <2>3, <3>1 DEF SupersededBy
  <2> QED BY <2>2, <2>3
<1>3. Record(r) \subseteq recorded \cup {r}
  BY DEF Record
<1>4. ASSUME NEW w \in Wanted(r) \ SupersededBy(r) PROVE w \in Record(r)
  <2>1. CASE w = r
    <3>1. r \notin NotRobust
      BY <1>1, <2>1 DEF Robust
    <3> QED BY <2>1, <3>1 DEF Record
  <2>2. CASE w # r
    <3>1. w \in wants /\ w \in recorded
      BY <1>1, <1>2, <2>2 DEF WantedIsRecorded
    <3>2. r \in Bindings /\ r \notin NotRobust => w \notin SameRecord(r)
      BY <2>2, <3>1, Objects DEF SupersededBy
    <3> QED BY <3>1, <3>2 DEF Record
  <2> QED BY <2>1, <2>2
<1> QED BY <1>1, <1>2, <1>3, <1>4

\* What a binding or consumer is made for is known to the channel: it exists,
\* and so it was not deleted.
LEMMA HeldIsKnown ==
  ASSUME TopologyInv, NEW r \in Bindings \cup Consumers, Robust(r), ObjectOf(r) \in held,
         ObjectOf(r) \in exists
  PROVE  ObjectOf(r) \in Names
<1>1. ObjectOf(r) \notin NotRobust
  BY DEF Robust, ObjectOf
<1> QED BY <1>1 DEF TopologyInv, HeldIsNamed, RemovedStaysAway, Away

\* A binding or consumer is made.
LEMMA MakeStep ==
  ASSUME TopologyInv, NEW r \in Bindings \cup Consumers, ObjectOf(r) \in held,
         ObjectOf(r) \in exists,
         bound' \subseteq Bindings, consuming' \subseteq Consumers,
         bound' \cup consuming' = bound \cup consuming \cup {r},
         recorded' = Record(r), wants' = Wanted(r), IsMade(r),
         superseded' = SupersededBy(r),
         losses' \in 0..MaxLosses, setbacks' \in 0..MaxSetbacks,
         UNCHANGED <<exists, prefetch, channel, restorer, todo, steps, held, detached,
                     exchanges, queues, qos>>
  PROVE  TopologyInv'
<1>0. PICK sup : sup = superseded'
  OBVIOUS
<1>1. /\ recorded' \subseteq recorded \cup {r}
      /\ wants' \subseteq wants \cup {r}
      /\ sup \subseteq wants' \cap Bindings
      /\ \A w \in wants' : Robust(w)
      /\ \A w \in wants' \ sup : w \in recorded'
      /\ \A w \in wants' \ sup : w \in wants \ superseded \/ w = r
      /\ SetTypes /\ SeqTypes /\ HistoryTypes
  <2>1. sup = SupersededBy(r)
    BY <1>0
  <2>2. HistoryTypes /\ WantedIsRecorded /\ SetTypes /\ SeqTypes
    BY DEF TopologyInv
  <2>3. /\ Record(r) \subseteq recorded \cup {r}
        /\ Wanted(r) \subseteq wants \cup {r} /\ wants \subseteq Wanted(r)
        /\ SupersededBy(r) \subseteq Wanted(r) \cap Bindings
        /\ \A w \in Wanted(r) : Robust(w)
        /\ \A w \in Wanted(r) \ SupersededBy(r) : w \in Record(r)
        /\ \A w \in Wanted(r) \ SupersededBy(r) : w \in wants \ superseded \/ w = r
    BY <2>2, RecordKeeps
  <2> QED BY <2>1, <2>2, <2>3
<1>2. SetTypes'
  BY <1>1 DEF SetTypes
<1>3. SeqTypes' /\ Names' = Names /\ ToSet(todo') = ToSet(todo)
  BY <1>1, SameNames
<1>4. StepsHeld' /\ IdleRestore'
  BY <1>1, <1>3 DEF TopologyInv, StepsHeld, IdleRestore
<1>5. WantedSoon'
  BY <1>0, <1>1, <1>3 DEF TopologyInv, WantedSoon
<1>6. Away' = Away \ {r} /\ HistoryTypes'
  <2>1. Away' = Away \ {r} /\ absent' \subseteq Items \cup Bindings \cup Consumers
        /\ revivable' \subseteq absent'
    BY <1>1, AwayOf, AwayTypes
  <2> QED BY <1>0, <1>1, <2>1 DEF HistoryTypes
<1>7. RemovedIsGone' /\ RemovedStaysAway'
  BY <1>1, <1>3, <1>6 DEF TopologyInv, RemovedIsGone, RemovedStaysAway, Away
<1>8. r \in wants' => ObjectOf(r) \in Names
  BY <1>1, HeldIsKnown
<1>9. HeldIsNamed'
  <2>1. r \notin Items
    BY Objects
  <2> QED BY <1>1, <1>3, <1>6, <2>1 DEF TopologyInv, SetTypes, HeldIsNamed
<1>10. WantedIsRecorded'
  BY <1>0, <1>1, <1>3, <1>8 DEF TopologyInv, WantedIsRecorded, Robust
<1> QED BY <1>2, <1>3, <1>4, <1>5, <1>6, <1>7, <1>9, <1>10 DEF TopologyInv

LEMMA BindStep ==
  ASSUME TopologyInv, NEW b \in Bindings, b.dest \in held, BindRequest(b)
  PROVE  TopologyInv'
<1>1. ObjectOf(b) = b.dest /\ bound \subseteq Bindings /\ exists \subseteq Items
      /\ consuming \subseteq Consumers /\ held \subseteq Items
  BY Objects DEF TopologyInv, SetTypes
<1>2. CASE Refused(CanBind(b))
  BY <1>2, RefusedIsGone, GoneStep
<1>3. CASE Interrupted({b}, exists, bound \cup {b})
  <2>1. PICK bound2 : bound2 = bound \cup {b}
    OBVIOUS
  <2>2. Gone
    BY <1>1, <1>3, <2>1, InterruptedIsGone, Objects
  <2> QED BY <2>2, GoneStep
<1>4. CASE /\ CanBind(b)
           /\ bound' = bound \cup {b}
           /\ recorded' = Record(b)
           /\ wants' = Wanted(b)
           /\ Superseded(b)
           /\ IsMade(b)
           /\ CountedUnderRestore
           /\ UNCHANGED <<exists, consuming, prefetch, restoring, held, detached,
                          exchanges, queues, qos>>
  <2>1. ObjectOf(b) \in held /\ ObjectOf(b) \in exists
    BY <1>1, <1>4 DEF CanBind
  <2>2. /\ bound' \subseteq Bindings /\ consuming' \subseteq Consumers
        /\ bound' \cup consuming' = bound \cup consuming \cup {b}
        /\ UNCHANGED <<exists, prefetch, channel, restorer, todo, steps, held, detached,
                       exchanges, queues, qos>>
    BY <1>1, <1>4 DEF restoring
  <2>3. losses' \in 0..MaxLosses /\ setbacks' \in 0..MaxSetbacks
    BY <1>4, CountedTypes DEF TopologyInv
  <2>4. superseded' = SupersededBy(b)
    BY <1>4, Objects DEF Superseded, SupersededBy
  <2> QED BY <1>4, <2>1, <2>2, <2>3, <2>4, MakeStep
<1> QED BY <1>2, <1>3, <1>4 DEF BindRequest

LEMMA ConsumeStep ==
  ASSUME TopologyInv, NEW c \in Consumers, Consume(c)
  PROVE  TopologyInv'
<1>1. /\ ObjectOf(c) = c.queue /\ bound \subseteq Bindings /\ exists \subseteq Items
      /\ consuming \subseteq Consumers
  BY Objects DEF TopologyInv, SetTypes
<1>2. CASE Refused(CanConsume(c))
  BY <1>2, RefusedIsGone, GoneStep
<1>3. CASE Interrupted({}, exists, bound)
  <2>1. Gone
    BY <1>1, <1>3, InterruptedIsGone
  <2> QED BY <2>1, GoneStep
<1>4. CASE /\ CanConsume(c)
           /\ consuming' = consuming \cup {c}
           /\ recorded' = Record(c)
           /\ wants' = Wanted(c)
           /\ IsMade(c)
           /\ CountedUnderRestore
           /\ UNCHANGED <<exists, bound, prefetch, restoring, held, detached,
                          exchanges, queues, qos, superseded>>
  <2>1. ObjectOf(c) \in held /\ ObjectOf(c) \in exists
    BY <1>1, <1>4 DEF CanConsume, Consume
  <2>2. /\ bound' \subseteq Bindings /\ consuming' \subseteq Consumers
        /\ bound' \cup consuming' = bound \cup consuming \cup {c}
        /\ UNCHANGED <<exists, prefetch, channel, restorer, todo, steps, held, detached,
                       exchanges, queues, qos, superseded>>
    BY <1>1, <1>4 DEF restoring
  <2>3. losses' \in 0..MaxLosses /\ setbacks' \in 0..MaxSetbacks
    BY <1>4, CountedTypes DEF TopologyInv
  <2>4. superseded' = SupersededBy(c)
    BY <1>4 DEF SupersededBy
  <2> QED BY <1>4, <2>1, <2>2, <2>3, <2>4, MakeStep
<1> QED BY <1>2, <1>3, <1>4 DEF Consume

\* A binding or consumer goes, and with it what else its record stood for.
LEMMA UnmakeStep ==
  ASSUME TopologyInv, NEW r \in Bindings \cup Consumers,
         NEW gone \in SUBSET (Bindings \cup Consumers), r \in gone,
         bound' \subseteq Bindings, consuming' \subseteq Consumers,
         bound' \cup consuming' = (bound \cup consuming) \ {r},
         recorded' = recorded \ gone, wants' = wants \ {r}, Revives(r),
         CountedUnderRestore,
         superseded' \subseteq wants' \cap Bindings,
         (superseded \cup (gone \cap wants)) \ {r} \subseteq superseded',
         UNCHANGED <<exists, prefetch, channel, restorer, todo, steps, held, detached,
                     exchanges, queues, qos>>
  PROVE  TopologyInv'
<1>1. SetTypes /\ SeqTypes /\ HistoryTypes
      /\ wants' \ superseded' \subseteq (wants \ superseded) \ gone
  BY DEF TopologyInv
<1>2. SeqTypes' /\ Names' = Names /\ ToSet(todo') = ToSet(todo)
  BY <1>1, SameNames
<1>3. SetTypes'
  BY <1>1 DEF SetTypes
<1>4. StepsHeld' /\ IdleRestore'
  BY <1>2 DEF TopologyInv, StepsHeld, IdleRestore
<1>5. WantedSoon'
  BY <1>1, <1>2 DEF TopologyInv, WantedSoon
<1>6. /\ Away' = IF r \in steps THEN Away \ {r} ELSE Away \cup {r}
      /\ r \notin exists /\ r \notin Names /\ r \notin ToSet(todo) /\ r \notin held
      /\ HistoryTypes'
  <2>1. losses' \in 0..MaxLosses /\ setbacks' \in 0..MaxSetbacks
    BY <1>1, CountedTypes
  <2>2. absent' \subseteq Items \cup Bindings \cup Consumers /\ revivable' \subseteq absent'
    BY <1>1, AwayTypes
  <2> QED BY <1>1, <2>1, <2>2, AwayOf, Objects, NamesTypes DEF SetTypes, HistoryTypes
<1>7. RemovedIsGone'
  BY <1>2, <1>6 DEF TopologyInv, RemovedIsGone
<1>8. RemovedStaysAway'
  BY <1>6 DEF TopologyInv, RemovedStaysAway, Away
<1>9. HeldIsNamed'
  BY <1>2, <1>6 DEF TopologyInv, HeldIsNamed
<1>10. WantedIsRecorded'
  BY <1>1, <1>2 DEF TopologyInv, WantedIsRecorded, Robust
<1> QED BY <1>2, <1>3, <1>4, <1>5, <1>6, <1>7, <1>8, <1>9, <1>10 DEF TopologyInv

LEMMA UnbindStep ==
  ASSUME TopologyInv, NEW b \in Bindings, UnbindRequest(b)
  PROVE  TopologyInv'
<1>1. /\ bound \subseteq Bindings /\ exists \subseteq Items
      /\ consuming \subseteq Consumers /\ b \notin Consumers
      /\ SameRecord(b) \subseteq Bindings /\ b \in SameRecord(b)
  BY Objects DEF TopologyInv, SetTypes
<1>2. CASE Interrupted({}, exists, bound \ {b})
  <2>1. PICK bound2 : bound2 = bound \ {b}
    OBVIOUS
  <2>2. Gone
    BY <1>1, <1>2, <2>1, InterruptedIsGone
  <2> QED BY <2>2, GoneStep
<1>3. CASE /\ bound' = bound \ {b}
           /\ recorded' = Forgotten(b)
           /\ wants' = wants \ {b}
           /\ superseded' = (superseded \cup (SameRecord(b) \cap wants)) \ {b}
           /\ Revives(b)
           /\ CountedUnderRestore
           /\ UNCHANGED <<exists, consuming, prefetch, restoring, held, detached,
                          exchanges, queues, qos>>
  <2>1. PICK gone : gone = SameRecord(b)
    OBVIOUS
  <2>2. /\ bound' \subseteq Bindings /\ consuming' \subseteq Consumers
        /\ bound' \cup consuming' = (bound \cup consuming) \ {b}
        /\ recorded' = recorded \ gone
        /\ UNCHANGED <<exists, prefetch, channel, restorer, todo, steps, held, detached,
                       exchanges, queues, qos>>
    BY <1>1, <1>3, <2>1 DEF restoring, Forgotten
  <2>3. superseded' \subseteq wants' \cap Bindings
        /\ (superseded \cup (gone \cap wants)) \ {b} \subseteq superseded'
    BY <1>1, <1>3, <2>1 DEF TopologyInv, HistoryTypes
  <2> QED BY <1>1, <1>3, <2>1, <2>2, <2>3, UnmakeStep
<1> QED BY <1>2, <1>3 DEF UnbindRequest

LEMMA CancelStep ==
  ASSUME TopologyInv, NEW c \in Consumers, Cancel(c)
  PROVE  TopologyInv'
<1>1. /\ bound \subseteq Bindings /\ exists \subseteq Items
      /\ consuming \subseteq Consumers /\ c \notin Bindings
  BY Objects DEF TopologyInv, SetTypes
<1>2. CASE Interrupted({}, exists, bound)
  <2>1. Gone
    BY <1>1, <1>2, InterruptedIsGone
  <2> QED BY <2>1, GoneStep
<1>3. CASE /\ consuming' = consuming \ {c}
           /\ recorded' = recorded \ {c}
           /\ wants' = wants \ {c}
           /\ Revives(c)
           /\ CountedUnderRestore
           /\ UNCHANGED <<exists, bound, prefetch, restoring, held, detached,
                          exchanges, queues, qos, superseded>>
  <2>1. /\ bound' \subseteq Bindings /\ consuming' \subseteq Consumers
        /\ bound' \cup consuming' = (bound \cup consuming) \ {c}
        /\ UNCHANGED <<exists, prefetch, channel, restorer, todo, steps, held, detached,
                       exchanges, queues, qos>>
    BY <1>1, <1>3 DEF restoring
  <2>2. superseded' \subseteq wants' \cap Bindings
        /\ (superseded \cup ({c} \cap wants)) \ {c} \subseteq superseded'
    BY <1>1, <1>3 DEF TopologyInv, HistoryTypes
  <2>3. PICK gone : gone = {c}
    OBVIOUS
  <2> QED BY <1>3, <2>1, <2>2, <2>3, UnmakeStep
<1> QED BY <1>2, <1>3 DEF Cancel

\* A deletion by the object leaves its name to the channel: an exchange has no
\* channel any more, and a queue comes back when the channel knows its name.
LEMMA DeleteStep ==
  ASSUME TopologyInv, NEW i \in Items, Deleted(i), CountedUnderRestore,
         UNCHANGED <<prefetch, restoring, held, exchanges, queues, recorded, qos>>,
         detached \subseteq detached', detached' \subseteq held,
         absent' = absent \cup {i}, revivable' \subseteq revivable \cup {i},
         revivable \ {i} \subseteq revivable',
         i \in Away' => i \in detached' \/ i \notin Names,
         i \in Away => i \in Names \/ i \in Away'
  PROVE  TopologyInv'
<1>1. /\ exists' = exists \ {i} /\ bound' = bound \ Touching(i)
      /\ consuming' = consuming \ Touching(i)
      /\ wants' = wants \ Touching(i) /\ superseded' = superseded \ Touching(i)
      /\ UNCHANGED <<prefetch, channel, restorer, todo, steps, held, exchanges, queues,
                     recorded, qos>>
      /\ SetTypes /\ SeqTypes /\ HistoryTypes
      /\ wants' \ superseded' \subseteq (wants \ superseded) \ Touching(i)
  BY DEF Deleted, restoring, TopologyInv
<1>2. SeqTypes' /\ Names' = Names /\ ToSet(todo') = ToSet(todo)
      /\ ToSet(todo) \subseteq Names
  BY <1>1, SameNames DEF TopologyInv, StepsHeld
<1>3. SetTypes'
  BY <1>1 DEF SetTypes
<1>4. HistoryTypes' /\ i \notin recorded /\ i \notin steps
  <2>1. losses' \in 0..MaxLosses /\ setbacks' \in 0..MaxSetbacks
    BY <1>1, CountedTypes
  <2>2. restorer' = restorer /\ absent' \subseteq Items \cup Bindings \cup Consumers
        /\ wants' \subseteq Bindings \cup Consumers
    BY <1>1 DEF HistoryTypes
  <2>3. superseded' \subseteq wants' \cap Bindings /\ revivable' \subseteq absent'
    BY <1>1 DEF HistoryTypes
  <2> QED BY <1>1, <2>1, <2>2, <2>3, Objects DEF HistoryTypes, SetTypes
<1>5. StepsHeld' /\ IdleRestore'
  BY <1>1, <1>2 DEF TopologyInv, StepsHeld, IdleRestore
<1>6. WantedSoon'
  BY <1>1, <1>2 DEF TopologyInv, WantedSoon
<1>7. Away' \subseteq Away \cup {i} /\ Away \ {i} \subseteq Away'
  BY DEF Away
<1>8. RemovedIsGone'
  BY <1>1, <1>2, <1>4, <1>7 DEF TopologyInv, RemovedIsGone
<1>9. RemovedStaysAway'
  <2>1. i \notin exists' /\ i \notin bound' /\ i \notin consuming'
    BY <1>1, Objects DEF SetTypes
  <2> QED BY <1>1, <1>7, <2>1 DEF TopologyInv, RemovedStaysAway, Away
<1>10. HeldIsNamed'
  BY <1>1, <1>2, <1>7 DEF TopologyInv, HeldIsNamed
<1>11. WantedIsRecorded'
  BY <1>1, <1>2 DEF TopologyInv, WantedIsRecorded, Robust
<1> QED BY <1>2, <1>3, <1>4, <1>5, <1>6, <1>8, <1>9, <1>10, <1>11 DEF TopologyInv

LEMMA DeleteExchangeStep ==
  ASSUME TopologyInv, NEW x \in Exchanges, DeleteExchange(x)
  PROVE  TopologyInv'
<1>1. x \in Items /\ x \in held /\ detached \subseteq held
  BY DEF Items, DeleteExchange, TopologyInv, SetTypes
<1>2. CASE Interrupted({}, exists \ {x}, bound \ Touching(x))
  BY <1>1, <1>2, InterruptedDeletion
<1>3. CASE /\ Deleted(x)
           /\ detached' = detached \cup {x}
           /\ IsRemoved(x)
           /\ CountedUnderRestore
           /\ UNCHANGED <<prefetch, restoring, held, exchanges, queues, recorded, qos>>
  <2>1. Away' = Away \cup {x} /\ absent' = absent \cup {x}
        /\ revivable' = revivable \ {x}
    BY <1>3, AwayOf DEF IsRemoved
  <2> QED BY <1>1, <1>3, <2>1, DeleteStep
<1> QED BY <1>2, <1>3 DEF DeleteExchange

LEMMA DeleteQueueStep ==
  ASSUME TopologyInv, NEW q \in Queues, DeleteQueue(q)
  PROVE  TopologyInv'
<1>1. q \in Items /\ detached \subseteq held /\ SeqTypes
  BY DEF Items, TopologyInv, SetTypes
<1>2. CASE Refused(FALSE)
  BY <1>2, RefusedIsGone, GoneStep
<1>3. CASE Interrupted({}, exists \ {q}, bound \ Touching(q))
  BY <1>1, <1>3, InterruptedDeletion
<1>4. CASE /\ Deleted(q)
           /\ absent' = absent \cup {q}
           /\ revivable' = IF q \in ToSet(queues) THEN revivable \cup {q} ELSE revivable
           /\ CountedUnderRestore
           /\ UNCHANGED <<prefetch, restoring, objects>>
  <2>1. UNCHANGED <<prefetch, restoring, held, exchanges, queues, recorded, qos, detached>>
    BY <1>4 DEF objects
  <2>2. q \in ToSet(queues) <=> q \in Names
    BY <1>1, NamesTypes DEF Names
  <2>3. CASE q \in ToSet(queues)
    <3>1. Away' = Away \ {q}
      BY <1>4, <2>3 DEF Away
    <3> QED BY <1>1, <1>4, <2>1, <2>2, <2>3, <3>1, DeleteStep
  <2>4. CASE q \notin ToSet(queues)
    <3>1. Away \subseteq Away'
      BY <1>4, <2>4 DEF Away
    <3> QED BY <1>1, <1>4, <2>1, <2>2, <2>4, <3>1, DeleteStep
  <2> QED BY <2>3, <2>4
<1> QED BY <1>2, <1>3, <1>4 DEF DeleteQueue

\* An object that is collected takes its records with it.
LEMMA ForgetStep ==
  ASSUME TopologyInv, NEW i \in Items, Forget(i)
  PROVE  TopologyInv'
<1>1. /\ channel # "restoring" /\ held' = held \ {i} /\ detached' = detached \ {i}
      /\ recorded' = recorded \ Of(i) /\ wants' = wants \ Of(i)
      /\ superseded' = superseded \ Of(i)
      /\ UNCHANGED <<exists, bound, consuming, prefetch, channel, restorer, todo, steps,
                     exchanges, queues, qos, absent, revivable, losses, setbacks>>
      /\ SetTypes /\ SeqTypes /\ HistoryTypes
      /\ wants' \ superseded' \subseteq (wants \ superseded) \ Of(i)
  BY DEF Forget, broker, restoring, counted, TopologyInv
<1>2. SeqTypes' /\ Names' = Names /\ ToSet(todo') = ToSet(todo)
  BY <1>1, SameNames
<1>3. todo = << >> /\ steps = {} /\ ToSet(todo) = {}
  BY <1>1, ToSetEmpty DEF TopologyInv, IdleRestore
<1>4. SetTypes'
  <2>1. \A r \in recorded' : ObjectOf(r) \in held'
    BY <1>1, Objects DEF SetTypes
  <2> QED BY <1>1, <2>1 DEF SetTypes
<1>5. StepsHeld' /\ IdleRestore' /\ WantedSoon'
  BY <1>1, <1>2, <1>3 DEF TopologyInv, StepsHeld, IdleRestore, WantedSoon
<1>6. Away' = Away /\ HistoryTypes'
  BY <1>1, SameAway DEF HistoryTypes
<1>7. RemovedIsGone' /\ RemovedStaysAway'
  BY <1>1, <1>2, <1>3, <1>6 DEF TopologyInv, RemovedIsGone, RemovedStaysAway, Away
<1>8. HeldIsNamed' /\ WantedIsRecorded'
  BY <1>1, <1>2, <1>6 DEF TopologyInv, HeldIsNamed, WantedIsRecorded, Robust
<1> QED BY <1>2, <1>4, <1>5, <1>6, <1>7, <1>8 DEF TopologyInv

-----------------------------------------------------------------------------
(* The restore. *)

\* A step of the restore that leaves the history alone.
LEMMA RestoreHistory ==
  ASSUME TopologyInv, UNCHANGED <<history, counted>>, restorer' \in Restorers
  PROVE  HistoryTypes' /\ Away' = Away /\ UNCHANGED <<wants, superseded>>
BY CountedTypes, SameHistory DEF TopologyInv

\* It starts with every name whose object lives.
LEMMA ReopenStep == ASSUME TopologyInv, Reopen PROVE TopologyInv'
<1>1. /\ channel' = "restoring" /\ prefetch' = qos /\ todo' = Alive(exchanges \o queues)
      /\ UNCHANGED <<exists, bound, consuming, steps, held, detached, exchanges, queues,
                     recorded, qos, wants, superseded>>
      /\ Away' = Away /\ HistoryTypes'
      /\ channel = "lost" /\ SetTypes /\ SeqTypes
  <2>1. restorer' \in Restorers
    BY DEF Reopen, TopologyInv, HistoryTypes
  <2> QED BY <2>1, RestoreHistory DEF Reopen, BasicQos, objects, TopologyInv
<1>2. /\ exchanges \o queues \in Seq(Items)
      /\ ToSet(exchanges \o queues) = Names
  <2>1. exchanges \in Seq(Items) /\ queues \in Seq(Items)
    BY <1>1, SeqMonotonic DEF SeqTypes, Items
  <2> QED BY <2>1, ToSetConcat, ConcatProperties DEF Names
<1>3. todo' \in Seq(Items) /\ ToSet(todo') = Names \cap held
  BY <1>1, <1>2, KeptProperties DEF Alive
<1>4. SetTypes' /\ SeqTypes' /\ Names' = Names
  BY <1>1, <1>3 DEF SetTypes, SeqTypes, Names
<1>5. StepsHeld' /\ IdleRestore'
  BY <1>1, <1>3, <1>4 DEF TopologyInv, StepsHeld, IdleRestore
<1>6. WantedSoon'
  BY <1>1, <1>3 DEF TopologyInv, WantedSoon, WantedIsRecorded, SetTypes
<1>7. RemovedIsGone' /\ RemovedStaysAway'
  BY <1>1, <1>3, <1>4 DEF TopologyInv, RemovedIsGone, RemovedStaysAway, Away
<1>8. HeldIsNamed' /\ WantedIsRecorded'
  BY <1>1, <1>4 DEF TopologyInv, HeldIsNamed, WantedIsRecorded, Robust
<1> QED BY <1>1, <1>4, <1>5, <1>6, <1>7, <1>8 DEF TopologyInv

\* The next one is declared, and what it recorded comes after it.
LEMMA RestoreItemStep == ASSUME TopologyInv, RestoreItem PROVE TopologyInv'
<1>0. PICK h : h = Head(todo)
  OBVIOUS
<1>1. /\ channel = "restoring" /\ steps = {} /\ todo # << >> /\ h \notin detached
      /\ exists' = exists \cup {h} /\ steps' = recorded \cap Of(h)
      /\ todo' = Tail(todo)
      /\ UNCHANGED <<bound, consuming, prefetch, channel, held, detached, exchanges,
                     queues, recorded, qos, wants, superseded>>
      /\ Away' = Away /\ HistoryTypes'
      /\ SetTypes /\ SeqTypes
  <2>1. restorer' \in Restorers
    BY DEF RestoreItem, TopologyInv, HistoryTypes
  <2> QED BY <1>0, <2>1, RestoreHistory DEF RestoreItem, objects, TopologyInv
<1>2. /\ h \in Items /\ todo' \in Seq(Items)
      /\ ToSet(todo) = {h} \cup ToSet(todo')
  BY <1>0, <1>1, ToSetTail DEF SeqTypes
<1>3. SetTypes' /\ SeqTypes' /\ Names' = Names
  BY <1>1, <1>2 DEF SetTypes, SeqTypes, Names
<1>4. StepsHeld' /\ IdleRestore'
  BY <1>1, <1>2, <1>3, Objects DEF TopologyInv, SetTypes, StepsHeld, IdleRestore
<1>5. WantedSoon'
  BY <1>1, <1>2, Objects DEF TopologyInv, WantedSoon, WantedIsRecorded, HistoryTypes
<1>6. RemovedIsGone' /\ RemovedStaysAway'
  BY <1>1, <1>2, <1>3, Objects DEF TopologyInv, SetTypes, RemovedIsGone, RemovedStaysAway,
     Away
<1>7. HeldIsNamed' /\ WantedIsRecorded'
  BY <1>1, <1>3 DEF TopologyInv, HeldIsNamed, WantedIsRecorded, Robust
<1> QED BY <1>1, <1>3, <1>4, <1>5, <1>6, <1>7 DEF TopologyInv

\* What is bound and consumed again is not away; a binding that takes the place of
\* another one supersedes it.
LEMMA RestoreBindingStep ==
  ASSUME TopologyInv, NEW b \in Bindings, RestoreBinding(b)
  PROVE  TopologyInv'
<1>0. PICK sup : sup = superseded'
  OBVIOUS
<1>1. /\ b \in steps /\ bound' = bound \cup {b} /\ recorded' = Record(b)
      /\ wants' = wants /\ steps' = steps \ {b} /\ Superseded(b)
      /\ UNCHANGED <<exists, consuming, prefetch, channel, restorer, todo, held, detached,
                     exchanges, queues, qos, absent, revivable, losses, setbacks>>
      /\ SetTypes /\ SeqTypes /\ HistoryTypes
  BY DEF RestoreBinding, counted, TopologyInv
<1>2. SeqTypes' /\ Names' = Names /\ ToSet(todo') = ToSet(todo)
  BY <1>1, SameNames
<1>3. /\ recorded' \subseteq recorded \cup {b}
      /\ sup \subseteq Bindings
      /\ \A w \in wants \ sup : w \in recorded'
      /\ \A w \in wants \ sup : w \in wants \ superseded \/ w = b
  <2>1. sup = SupersededBy(b)
    BY <1>0, <1>1, Objects DEF Superseded, SupersededBy
  <2>2. HistoryTypes /\ WantedIsRecorded
    BY DEF TopologyInv
  <2>3. /\ Record(b) \subseteq recorded \cup {b} /\ wants \subseteq Wanted(b)
        /\ SupersededBy(b) \subseteq Wanted(b) \cap Bindings
        /\ \A w \in Wanted(b) \ SupersededBy(b) : w \in Record(b)
        /\ \A w \in Wanted(b) \ SupersededBy(b) : w \in wants \ superseded \/ w = b
    BY <2>2, RecordKeeps
  <2> QED BY <1>1, <2>1, <2>3
<1>4. SetTypes' /\ ObjectOf(b) \in held /\ b \notin Away
  BY <1>1, <1>3 DEF SetTypes, TopologyInv, StepsHeld, RemovedIsGone
<1>5. Away' = Away /\ HistoryTypes'
  <2>1. sup \subseteq wants \cap Bindings
    <3>1. sup \subseteq superseded \cup wants
      BY <1>0, <1>1 DEF Superseded
    <3> QED BY <1>1, <1>3, <3>1 DEF HistoryTypes
  <2> QED BY <1>0, <1>1, <2>1, SameAway DEF HistoryTypes
<1>6. StepsHeld' /\ IdleRestore'
  BY <1>1, <1>2 DEF TopologyInv, StepsHeld, IdleRestore
<1>7. WantedSoon'
  BY <1>0, <1>1, <1>2, <1>3 DEF TopologyInv, WantedSoon
<1>8. RemovedIsGone' /\ RemovedStaysAway'
  BY <1>1, <1>2, <1>3, <1>4, <1>5 DEF TopologyInv, RemovedIsGone, RemovedStaysAway, Away
<1>9. HeldIsNamed' /\ WantedIsRecorded'
  BY <1>0, <1>1, <1>2, <1>3, <1>5 DEF TopologyInv, HeldIsNamed, WantedIsRecorded, Robust
<1> QED BY <1>2, <1>4, <1>5, <1>6, <1>7, <1>8, <1>9 DEF TopologyInv

LEMMA RestoreConsumerStep ==
  ASSUME TopologyInv, NEW c \in Consumers, RestoreConsumer(c)
  PROVE  TopologyInv'
<1>1. /\ c \in steps /\ consuming' = consuming \cup {c} /\ steps' = steps \ {c}
      /\ recorded' \in {recorded, recorded \cup {c}}
      /\ UNCHANGED <<exists, bound, prefetch, channel, todo, held, detached,
                     exchanges, queues, qos, wants, superseded>>
      /\ Away' = Away /\ HistoryTypes'
      /\ SetTypes /\ SeqTypes
  <2>1. restorer' \in Restorers
    BY DEF RestoreConsumer, TopologyInv, HistoryTypes
  <2> QED BY <2>1, RestoreHistory, Objects DEF RestoreConsumer, Record, TopologyInv
<1>2. SeqTypes' /\ Names' = Names /\ ToSet(todo') = ToSet(todo)
  BY <1>1, SameNames
<1>3. SetTypes' /\ ObjectOf(c) \in held /\ c \notin Away
  BY <1>1 DEF SetTypes, TopologyInv, StepsHeld, RemovedIsGone
<1>4. StepsHeld' /\ IdleRestore' /\ WantedSoon'
  BY <1>1, <1>2 DEF TopologyInv, StepsHeld, IdleRestore, WantedSoon
<1>5. RemovedIsGone' /\ RemovedStaysAway'
  BY <1>1, <1>2, <1>3 DEF TopologyInv, RemovedIsGone, RemovedStaysAway, Away
<1>6. HeldIsNamed' /\ WantedIsRecorded'
  BY <1>1, <1>2 DEF TopologyInv, HeldIsNamed, WantedIsRecorded, Robust
<1> QED BY <1>1, <1>2, <1>3, <1>4, <1>5, <1>6 DEF TopologyInv

\* Steps that change the state of the channel at most, when nothing is left of
\* a restore.
LEMMA RestoredStep ==
  ASSUME TopologyInv, Restored \/ UNCHANGED vars
  PROVE  TopologyInv'
<1>1. /\ UNCHANGED <<exists, bound, consuming, prefetch, todo, steps, held, detached,
                     exchanges, queues, recorded, qos, wants, superseded>>
      /\ Away' = Away /\ HistoryTypes'
      /\ SetTypes /\ SeqTypes
      /\ \/ channel' = channel
         \/ channel = "restoring" /\ channel' = "open" /\ todo = << >> /\ steps = {}
  <2>1. restorer' \in Restorers /\ UNCHANGED <<history, counted>>
    BY DEF Restored, vars, restoring, TopologyInv, HistoryTypes, Restorers
  <2>2. HistoryTypes' /\ Away' = Away /\ UNCHANGED <<wants, superseded>>
    BY <2>1, RestoreHistory
  <2> QED BY <2>2 DEF Restored, broker, objects, restoring, vars, TopologyInv
<1>2. SeqTypes' /\ Names' = Names /\ ToSet(todo') = ToSet(todo)
  BY <1>1, SameNames
<1>3. SetTypes' /\ StepsHeld' /\ IdleRestore' /\ WantedSoon'
  BY <1>1, <1>2 DEF TopologyInv, SetTypes, StepsHeld, IdleRestore, WantedSoon
<1>4. RemovedIsGone' /\ RemovedStaysAway' /\ HeldIsNamed' /\ WantedIsRecorded'
  BY <1>1, <1>2 DEF TopologyInv, RemovedIsGone, RemovedStaysAway, Away, HeldIsNamed,
     WantedIsRecorded, Robust
<1> QED BY <1>1, <1>2, <1>3, <1>4 DEF TopologyInv

-----------------------------------------------------------------------------
(* What holds always. *)

LEMMA TopologyInvInit == Init => TopologyInv
<1> SUFFICES ASSUME Init PROVE TopologyInv
  OBVIOUS
<1>1. SetTypes /\ HistoryTypes
  BY TopologyAssumption DEF Init, SetTypes, HistoryTypes, Restorers, Items
<1>2. SeqTypes /\ Names = {} /\ ToSet(todo) = {}
  BY ToSetEmpty DEF Init, SeqTypes, Names
<1>3. StepsHeld /\ IdleRestore /\ WantedSoon /\ WantedIsRecorded
  BY <1>2 DEF Init, StepsHeld, IdleRestore, WantedSoon, WantedIsRecorded
<1>4. RemovedIsGone /\ RemovedStaysAway /\ HeldIsNamed
  <2>1. Away = (Items \ Passive) \cup Bindings \cup Consumers
    BY DEF Init, Away
  <2> QED BY <1>2, <2>1, Objects, TopologyAssumption DEF Init, RemovedIsGone,
          RemovedStaysAway, HeldIsNamed
<1> QED BY <1>1, <1>2, <1>3, <1>4 DEF TopologyInv

\* The inductive invariant: the records of the objects that live hold what is
\* wanted, unless another binding has taken the record, and nothing that was removed,
\* unless a restore under way or Queue.delete() makes it again; the names of the
\* channel lead to those records, and what a restore has not done yet is in its lists.
THEOREM TopologyInvariant == Spec => []TopologyInv
<1>1. TopologyInv /\ [Next]_vars => TopologyInv'
  <2> SUFFICES ASSUME TopologyInv, [Next]_vars PROVE TopologyInv'
    OBVIOUS
  <2>1. ASSUME NEW x \in Exchanges,
               DeclareExchange(x) \/ ExchangeDelete(x) \/ DeleteExchange(x)
        PROVE  TopologyInv'
    BY <2>1, DeclareStep, DeleteByNameStep, DeleteExchangeStep
  <2>2. ASSUME NEW q \in Queues, DeclareQueue(q) \/ QueueDelete(q) \/ DeleteQueue(q)
        PROVE  TopologyInv'
    BY <2>2, DeclareStep, DeleteByNameStep, DeleteQueueStep
  <2>3. ASSUME NEW b \in Bindings, BindExchange(b) \/ BindQueue(b) PROVE TopologyInv'
    BY <2>3, BindStep DEF BindExchange, BindQueue
  <2>4. ASSUME NEW b \in Bindings, UnbindExchange(b) \/ UnbindQueue(b)
        PROVE  TopologyInv'
    BY <2>4, UnbindStep DEF UnbindExchange, UnbindQueue
  <2>5. ASSUME NEW c \in Consumers, Consume(c) \/ Cancel(c) PROVE TopologyInv'
    BY <2>5, ConsumeStep, CancelStep
  <2>6. CASE Restore
    BY <2>6, ReopenStep, RestoreItemStep, RestoreBindingStep, RestoreConsumerStep,
       RestoreFailsStep, RestoredStep DEF Restore
  <2>7. CASE UNCHANGED vars
    BY <2>7, RestoredStep
  <2> QED BY <2>1, <2>2, <2>3, <2>4, <2>5, <2>6, <2>7, ForgetStep, SetQosStep, LostStep,
          LostAfterwardsStep DEF Next
<1> QED BY TopologyInvInit, <1>1, PTL DEF Spec

\* The state of the broker and of the records is always well formed: only objects
\* that live remember something, and only bindings and consumers of theirs.
THEOREM TopologyTypes == Spec => []TypeOK
<1>1. TopologyInv => TypeOK
  BY RecordedTypes DEF TopologyInv
<1> QED BY TopologyInvariant, <1>1, PTL

\* No restore brings back what the user unbound, cancelled or deleted, except what a
\* restore under way had copied before (UnbindRequest, Cancel) and a queue deleted
\* through its object, which stays in the records of the channel (DeleteQueue).
THEOREM RemovedStaysAwayHolds == Spec => []RemovedStaysAway
<1>1. TopologyInv => RemovedStaysAway
  BY DEF TopologyInv
<1> QED BY TopologyInvariant, <1>1, PTL

\* A channel that is restored has the prefetch count and every robust binding and
\* consumer the user was told of and did not remove, after any losses, except the
\* bindings of an exchange whose record another one from the same source has taken.
THEOREM WantedIsThereHolds == Spec => []WantedIsThere
<1>1. TopologyInv => WantedIsThere
  BY ToSetEmpty DEF TopologyInv, IdleRestore, WantedSoon, WantedIsThere
<1> QED BY TopologyInvariant, <1>1, PTL
=============================================================================
