---------------------------- MODULE TxParserProofs ----------------------------
(* TxParser for every message, whatever was parsed before it.                *)
EXTENDS TxParser, Induction, FiniteSetTheorems

Bits == UNION {{Bit(id) : id \in Single(s)} : s \in Structs}

SlotTypes == [seen : SUBSET InParticipant, signature : Lengths, weight : Nat]

FieldTypes ==
  {g \in [Structs -> UNION {[Single(s) -> Fields \cup {NoField}] : s \in Structs}] :
     \A s \in Structs : g[s] \in [Single(s) -> Fields \cup {NoField}]}

\* What parser_tx_obj may be, half way through a message too
Objs == [seen : [Structs -> SUBSET Bits],
         fields : FieldTypes,
         multisig : {s \in Seq(Nat) : Len(s) <= MaxMultisig},
         participants : 0..MaxParticipants,
         slots : [Slots -> SlotTypes]]

Errors == {"ok", "unreadable", "duplicated_field", "value_out_of_range", "unexpected_field",
           "unexpected_number_items", "unexpected_characters", "no_data", "unexpected_chain",
           "unexpected_buffer_end"}

Readers == [obj : Objs, err : Errors]
-------------------------------------------------------------------------------

LEMMA FieldType ==
  ASSUME NEW f \in Fields
  PROVE  /\ f.id \in STRING /\ f.ok \in {"yes", "late", "no"} /\ f.val \in Nat
         /\ f.body \in Seq(Fields)
         /\ f.id = "signature" => f.val \in Lengths
<1> f \in [id : STRING, ok : {"yes", "late", "no"}, val : Nat, chars : {"upper", "other"},
            body : Seq(Fields)]
  BY TxParserAssumption
<1> QED BY TxParserAssumption

LEMMA Limits == MaxMultisig \in Nat /\ MaxParticipants \in Nat
BY TxParserAssumption

LEMMA StructNames ==
  Structs = {"root", "fees", "coin", "metadata", "send", "vote", "update", "amount"}
BY DEF Structs, Known

\* What each struct has one place for
LEMMA SingleNames ==
  /\ Single("root") = {"fees", "send", "vote", "update"}
  /\ Single("fees") = {"payer", "coin"}
  /\ Single("coin") = {"whole", "fractional", "ticker"}
  /\ Single("amount") = {"whole", "fractional", "ticker"}
  /\ Single("metadata") = {"schema"}
  /\ Single("send") = {"metadata", "source", "destination", "amount", "memo"}
  /\ Single("vote") = {"metadata", "proposalId", "voter", "voteOption"}
  /\ Single("update") = {"metadata", "contractId", "activation_th", "admin_th"}
BY DEF Single, KnownIn, Known, Repeated, Kinds

LEMMA KnownNames ==
  ASSUME NEW s \in Structs, NEW id \in KnownIn(s)
  PROVE  /\ id # "none"
         /\ id = "multisig" => s = "root"
         /\ id = "participants" => s = "update"
         /\ id \notin Repeated => id \in Single(s)
BY StructNames DEF KnownIn, Known, Repeated, Kinds, Single

LEMMA ReaderType ==
  ASSUME NEW r \in Readers
  PROVE  /\ r.err \in Errors /\ r.obj \in Objs
         /\ r.obj.seen \in [Structs -> SUBSET Bits]
         /\ r.obj.fields \in FieldTypes
         /\ r.obj.multisig \in Seq(Nat) /\ Len(r.obj.multisig) \in 0..MaxMultisig
         /\ r.obj.participants \in 0..MaxParticipants
         /\ r.obj.slots \in [Slots -> SlotTypes]
BY DEF Readers, Objs

LEMMA FailType ==
  ASSUME NEW r \in Readers, NEW err \in Errors
  PROVE  Fail(r, err) \in Readers /\ Fail(r, err).err = err /\ Fail(r, err).obj = r.obj
BY DEF Fail, Readers

-------------------------------------------------------------------------------
(* Counting the fields of a body *)

LEMMA RankStep ==
  ASSUME NEW body \in Seq(Fields), NEW id
  PROVE  /\ \A n \in Nat : Rank(body, id, n) \in Nat
         /\ Rank(body, id, 0) = 0
         /\ \A n \in 1..Len(body) :
              /\ body[n].id = id => Rank(body, id, n) = Rank(body, id, n - 1) + 1
              /\ body[n].id # id => Rank(body, id, n) = Rank(body, id, n - 1)
         /\ Rank(body, id, Len(body)) = Cardinality(Occurrences(body, {id}))
<1> DEFINE Upto(n) == {k \in Occurrences(body, {id}) : k <= n}
<1>1. ASSUME NEW n \in Nat PROVE IsFiniteSet(Upto(n)) /\ Cardinality(Upto(n)) \in Nat
  <2>1. Upto(n) \in SUBSET Nat /\ \A k \in Upto(n) : k <= n
    BY DEF Occurrences
  <2> HIDE DEF Upto
  <2>2. IsFiniteSet(Upto(n))
    BY <2>1, FS_BoundedSetOfNaturals
  <2> QED BY <2>2, FS_CardinalityType
<1>2. \A n : Rank(body, id, n) = Cardinality(Upto(n))
  BY DEF Rank
<1>3. Upto(0) = {}
  BY DEF Occurrences
<1>4. Upto(Len(body)) = Occurrences(body, {id})
  BY DEF Occurrences
<1>5. ASSUME NEW n \in 1..Len(body)
      PROVE  /\ body[n].id = id => Rank(body, id, n) = Rank(body, id, n - 1) + 1
             /\ body[n].id # id => Rank(body, id, n) = Rank(body, id, n - 1)
  <2>1. n - 1 \in Nat
    OBVIOUS
  <2>2. CASE body[n].id = id
    <3>1. Upto(n) = Upto(n - 1) \cup {n} /\ n \notin Upto(n - 1)
      BY <2>2 DEF Occurrences
    <3> HIDE DEF Upto
    <3>2. Cardinality(Upto(n - 1) \cup {n}) = Cardinality(Upto(n - 1)) + 1
      BY <1>1, <2>1, <3>1, FS_AddElement
    <3> QED BY <1>2, <2>2, <3>1, <3>2
  <2>3. CASE body[n].id # id
    <3>1. Upto(n) = Upto(n - 1)
      BY <2>3 DEF Occurrences
    <3> HIDE DEF Upto
    <3> QED BY <1>1, <1>2, <2>1, <2>3, <3>1
  <2> QED BY <2>2, <2>3
<1> HIDE DEF Upto
<1> QED BY <1>1, <1>2, <1>3, <1>4, <1>5, FS_EmptySet

\* The ranks of two fields with this id are in the order of the fields.
LEMMA RankOrder ==
  ASSUME NEW body \in Seq(Fields), NEW id
  PROVE  \A n \in 0..Len(body) : \A k \in 1..n :
           body[k].id = id => Rank(body, id, k) \in 1..Rank(body, id, n)
<1> DEFINE S == {m \in 0..Len(body) :
                   \A k \in 1..m : body[k].id = id => Rank(body, id, k) \in 1..Rank(body, id, m)}
<1>1. 0 \in S
  OBVIOUS
<1>2. ASSUME NEW m \in 1..Len(body), m - 1 \in S PROVE m \in S
  <2>1. m - 1 \in Nat /\ m \in Nat
    OBVIOUS
  <2>2. /\ Rank(body, id, m - 1) \in Nat /\ Rank(body, id, m) \in Nat
        /\ body[m].id = id => Rank(body, id, m) = Rank(body, id, m - 1) + 1
        /\ body[m].id # id => Rank(body, id, m) = Rank(body, id, m - 1)
    BY <2>1, RankStep
  <2>3. ASSUME NEW k \in 1..m, body[k].id = id PROVE Rank(body, id, k) \in 1..Rank(body, id, m)
    <3>1. CASE k = m
      BY <2>2, <2>3, <3>1
    <3>2. CASE k # m
      BY <1>2, <2>2, <2>3, <3>2
    <3> QED BY <3>1, <3>2
  <2> QED BY <2>3
<1>3. Len(body) \in Nat
  OBVIOUS
<1> HIDE DEF S
<1>4. \A m \in 0..Len(body) : m \in S
  BY <1>1, <1>2, <1>3, LoopInduction
<1> QED BY <1>4 DEF S
-------------------------------------------------------------------------------
(* The loops, by their first reader and one turn *)

\* The loop over the fields of a participant
LEMMA SlotLoop ==
  ASSUME NEW r, NEW slot, NEW body \in Seq(Fields)
  PROVE  /\ SlotTurns(r, slot, body)[0] = r
         /\ \A n \in 1..Len(body) : SlotTurns(r, slot, body)[n] = ReadInSlot(slot, SlotTurns(r, slot, body)[n - 1], body[n])
<1> DEFINE Goes(q, m) == q = [n \in 0..m |-> IF n = 0 THEN r ELSE ReadInSlot(slot, q[n - 1], body[n])]
           S == {m \in 0..Len(body) : \E q : Goes(q, m)}
<1>1. 0 \in S
  <2>1. Goes([n \in 0..0 |-> r], 0)
    OBVIOUS
  <2>2. 0 \in 0..Len(body)
    OBVIOUS
  <2> HIDE DEF Goes
  <2> QED BY <2>1, <2>2
<1>2. ASSUME NEW m \in 1..Len(body), m - 1 \in S PROVE m \in S
  <2>1. PICK q : Goes(q, m - 1)
    BY <1>2
  <2> DEFINE p == [n \in 0..m |-> IF n = m THEN ReadInSlot(slot, q[m - 1], body[m]) ELSE q[n]]
  <2>2. ASSUME NEW n \in 0..m
        PROVE  p[n] = IF n = 0 THEN r ELSE ReadInSlot(slot, p[n - 1], body[n])
    BY <2>1
  <2>3. Goes(p, m)
    BY <2>2
  <2>4. m \in 0..Len(body)
    OBVIOUS
  <2> HIDE DEF Goes, p
  <2> QED BY <2>3, <2>4
<1>3. \E q : Goes(q, Len(body))
  <2>1. Len(body) \in Nat
    OBVIOUS
  <2> HIDE DEF Goes
  <2>2. \A m \in 0..Len(body) : m \in S
    <3> HIDE DEF S
    <3> QED BY <1>1, <1>2, <2>1, LoopInduction
  <2> QED BY <2>1, <2>2
<1>4. SlotTurns(r, slot, body) = CHOOSE q : Goes(q, Len(body))
  BY DEF SlotTurns
<1>5. Goes(SlotTurns(r, slot, body), Len(body))
  <2> HIDE DEF Goes
  <2> QED BY <1>3, <1>4
<1> QED BY <1>5

\* The loop over the fields of a struct
LEMMA StructLoop ==
  ASSUME NEW r, NEW struct, NEW body \in Seq(Fields)
  PROVE  /\ Turns(r, struct, body)[0] = r
         /\ \A n \in 1..Len(body) : Turns(r, struct, body)[n] = ReadField(Turns(r, struct, body)[n - 1], struct, body[n])
<1> DEFINE Goes(q, m) == q = [n \in 0..m |-> IF n = 0 THEN r ELSE ReadField(q[n - 1], struct, body[n])]
           S == {m \in 0..Len(body) : \E q : Goes(q, m)}
<1>1. 0 \in S
  <2>1. Goes([n \in 0..0 |-> r], 0)
    OBVIOUS
  <2>2. 0 \in 0..Len(body)
    OBVIOUS
  <2> HIDE DEF Goes
  <2> QED BY <2>1, <2>2
<1>2. ASSUME NEW m \in 1..Len(body), m - 1 \in S PROVE m \in S
  <2>1. PICK q : Goes(q, m - 1)
    BY <1>2
  <2> DEFINE p == [n \in 0..m |-> IF n = m THEN ReadField(q[m - 1], struct, body[m]) ELSE q[n]]
  <2>2. ASSUME NEW n \in 0..m
        PROVE  p[n] = IF n = 0 THEN r ELSE ReadField(p[n - 1], struct, body[n])
    BY <2>1
  <2>3. Goes(p, m)
    BY <2>2
  <2>4. m \in 0..Len(body)
    OBVIOUS
  <2> HIDE DEF Goes, p
  <2> QED BY <2>3, <2>4
<1>3. \E q : Goes(q, Len(body))
  <2>1. Len(body) \in Nat
    OBVIOUS
  <2> HIDE DEF Goes
  <2>2. \A m \in 0..Len(body) : m \in S
    <3> HIDE DEF S
    <3> QED BY <1>1, <1>2, <2>1, LoopInduction
  <2> QED BY <2>1, <2>2
<1>4. Turns(r, struct, body) = CHOOSE q : Goes(q, Len(body))
  BY DEF Turns
<1>5. Goes(Turns(r, struct, body), Len(body))
  <2> HIDE DEF Goes
  <2> QED BY <1>3, <1>4
<1> QED BY <1>5
-------------------------------------------------------------------------------
(* One participant *)

LEMMA SlotStep ==
  ASSUME NEW r \in Readers, r.err = "ok", NEW slot \in Slots, NEW f \in Fields,
         NEW d, d = ReadInSlot(slot, r, f)
  PROVE  /\ d \in Readers
         /\ d.obj.seen = r.obj.seen /\ d.obj.fields = r.obj.fields
         /\ d.obj.multisig = r.obj.multisig /\ d.obj.participants = r.obj.participants
         /\ \A s \in Slots \ {slot} : d.obj.slots[s] = r.obj.slots[s]
         /\ d.err = "ok" <=> /\ f.id \in InParticipant /\ f.ok = "yes"
                             /\ f.id \notin r.obj.slots[slot].seen
         /\ d.err = "ok" =>
              /\ d.obj.slots[slot].seen = r.obj.slots[slot].seen \cup {f.id}
              /\ d.obj.slots[slot][f.id] = f.val
              /\ \A id \in InParticipant \ {f.id} : d.obj.slots[slot][id] = r.obj.slots[slot][id]
<1>1. /\ f.id \in STRING /\ f.ok \in {"yes", "late", "no"} /\ f.val \in Nat
      /\ f.id = "signature" => f.val \in Lengths
  BY FieldType
<1>2. r.obj.slots \in [Slots -> SlotTypes] /\ r.obj.slots[slot] \in SlotTypes
  BY ReaderType
<1> DEFINE marked == SeeInSlot(r, slot, f)
           full == KeepInSlot(marked, slot, f)
<1>3. CASE f.id \notin InParticipant
  <2>1. d = Fail(r, "unexpected_field")
    BY <1>3 DEF ReadInSlot
  <2>2. d \in Readers /\ d.obj = r.obj /\ d.err # "ok"
    BY <2>1, FailType DEF Errors
  <2> QED BY <1>3, <2>2
<1>4. CASE f.id \in r.obj.slots[slot].seen
  <2>1. d = Fail(r, "unexpected_field") \/ d = Fail(r, "duplicated_field")
    BY <1>4 DEF ReadInSlot
  <2>2. d \in Readers /\ d.obj = r.obj /\ d.err # "ok"
    BY <2>1, FailType DEF Errors
  <2> QED BY <1>4, <2>2
<1>5. CASE f.id \in InParticipant /\ f.id \notin r.obj.slots[slot].seen
  <2>1. /\ marked \in Readers /\ marked.err = "ok"
        /\ marked.obj.seen = r.obj.seen /\ marked.obj.fields = r.obj.fields
        /\ marked.obj.multisig = r.obj.multisig /\ marked.obj.participants = r.obj.participants
        /\ \A s \in Slots \ {slot} : marked.obj.slots[s] = r.obj.slots[s]
        /\ marked.obj.slots[slot] = [r.obj.slots[slot] EXCEPT !.seen = @ \cup {f.id}]
    BY <1>2, <1>5 DEF SeeInSlot, Readers, Objs, SlotTypes
  <2>2. /\ full \in Readers /\ full.err = "ok"
        /\ full.obj.seen = marked.obj.seen /\ full.obj.fields = marked.obj.fields
        /\ full.obj.multisig = marked.obj.multisig
        /\ full.obj.participants = marked.obj.participants
        /\ \A s \in Slots \ {slot} : full.obj.slots[s] = marked.obj.slots[s]
        /\ full.obj.slots[slot] = [marked.obj.slots[slot] EXCEPT ![f.id] = f.val]
    BY <1>1, <1>2, <1>5, <2>1 DEF KeepInSlot, Readers, Objs, SlotTypes, InParticipant
  <2>3. d = IF f.ok = "no" THEN Fail(marked, "unreadable")
            ELSE IF f.ok = "late" THEN Fail(full, "unreadable") ELSE full
    BY <1>5 DEF ReadInSlot
  <2> HIDE DEF marked, full
  <2>4. CASE f.ok # "yes"
    <3>1. CASE f.ok = "no"
      <4>1. d \in Readers /\ d.obj = marked.obj /\ d.err # "ok"
        BY <2>1, <2>3, <3>1, FailType DEF Errors
      <4> QED BY <2>1, <3>1, <4>1
    <3>2. CASE f.ok = "late"
      <4>1. d \in Readers /\ d.obj = full.obj /\ d.err # "ok"
        BY <2>2, <2>3, <3>2, FailType DEF Errors
      <4> QED BY <2>1, <2>2, <3>2, <4>1
    <3> QED BY <1>1, <2>4, <3>1, <3>2
  <2>5. CASE f.ok = "yes"
    <3>1. /\ d.obj.slots[slot].seen = r.obj.slots[slot].seen \cup {f.id}
          /\ d.obj.slots[slot][f.id] = f.val
          /\ \A id \in InParticipant \ {f.id} : d.obj.slots[slot][id] = r.obj.slots[slot][id]
      <4> DEFINE old == r.obj.slots[slot]
                 mid == marked.obj.slots[slot]
                 new == d.obj.slots[slot]
      <4>1. old \in SlotTypes /\ mid \in SlotTypes
        BY <1>2, <2>1, ReaderType
      <4>2. mid = [old EXCEPT !.seen = @ \cup {f.id}] /\ new = [mid EXCEPT ![f.id] = f.val]
        BY <2>1, <2>2, <2>3, <2>5
      <4>3. f.id = "signature" \/ f.id = "weight"
        BY <1>5 DEF InParticipant
      <4> HIDE DEF old, mid, new
      <4>4. /\ new.seen = old.seen \cup {f.id} /\ new[f.id] = f.val
            /\ \A id \in {"signature", "weight"} \ {f.id} : new[id] = old[id]
        BY <4>1, <4>2, <4>3 DEF SlotTypes
      <4> QED BY <4>4 DEF old, new, InParticipant
    <3> QED BY <1>5, <2>1, <2>2, <2>3, <2>5, <3>1
  <2> QED BY <1>1, <2>4, <2>5
<1> QED BY <1>3, <1>4, <1>5

\* The one field with an id of ids is the one that is found.
LEMMA FoundIs ==
  ASSUME NEW body, NEW ids, AtMostOnce(body, ids), NEW n \in Occurrences(body, ids)
  PROVE  Found(body, ids) = body[n]
<1>1. (CHOOSE k \in Occurrences(body, ids) : TRUE) \in Occurrences(body, ids)
  OBVIOUS
<1>2. (CHOOSE k \in Occurrences(body, ids) : TRUE) = n
  BY <1>1 DEF AtMostOnce
<1> QED BY <1>2 DEF Found

\* What reading the participant f into the slot makes of r: one that is
\* accepted has its fields once and leaves their values, and a good one is
\* accepted if the bits were clear.
SlotResult(r, slot, f, d) ==
  /\ d \in Readers
  /\ d.obj.seen = r.obj.seen /\ d.obj.fields = r.obj.fields
  /\ d.obj.multisig = r.obj.multisig /\ d.obj.participants = r.obj.participants
  /\ \A s \in Slots \ {slot} : d.obj.slots[s] = r.obj.slots[s]
  /\ d.err = "ok" =>
       /\ ValidParticipant(f)
       /\ \A id \in InParticipant :
            d.obj.slots[slot][id] = IF Occurrences(f.body, {id}) = {}
                                      THEN r.obj.slots[slot][id]
                                      ELSE Found(f.body, {id}).val
  /\ ValidParticipant(f) /\ r.obj.slots[slot].seen = {} => d.err = "ok"

LEMMA SlotRead ==
  ASSUME NEW r \in Readers, r.err = "ok", NEW slot \in Slots, NEW f \in Fields
  PROVE  SlotResult(r, slot, f, SlotTurns(r, slot, f.body)[Len(f.body)])
<1> SUFFICES ASSUME NEW d, d = SlotTurns(r, slot, f.body)[Len(f.body)]
             PROVE  SlotResult(r, slot, f, d)
  OBVIOUS
<1> DEFINE body == f.body
           q == SlotTurns(r, slot, body)
<1>1. body \in Seq(Fields) /\ Len(body) \in Nat
  BY FieldType
<1>2. /\ q[0] = r
      /\ \A n \in 1..Len(body) : q[n] = ReadInSlot(slot, q[n - 1], body[n])
  BY <1>1, SlotLoop
<1> HIDE DEF body, q
<1> DEFINE Frame(n) ==
             /\ q[n] \in Readers
             /\ q[n].obj.seen = r.obj.seen /\ q[n].obj.fields = r.obj.fields
             /\ q[n].obj.multisig = r.obj.multisig /\ q[n].obj.participants = r.obj.participants
             /\ \A s \in Slots \ {slot} : q[n].obj.slots[s] = r.obj.slots[s]
           Fits(n) ==
             q[n].err = "ok" =>
               /\ \A k \in 1..n : body[k].id \in InParticipant /\ body[k].ok = "yes"
               /\ \A k \in 1..n : body[k].id \in q[n].obj.slots[slot].seen
               /\ \A j, k \in 1..n : body[j].id = body[k].id => j = k
               /\ \A k \in 1..n : q[n].obj.slots[slot][body[k].id] = body[k].val
               /\ \A id \in InParticipant : (\A k \in 1..n : body[k].id # id) =>
                    q[n].obj.slots[slot][id] = r.obj.slots[slot][id]
           Taken(n) ==
             ValidParticipant(f) /\ r.obj.slots[slot].seen = {} =>
               /\ q[n].err = "ok"
               /\ \A id \in q[n].obj.slots[slot].seen : \E k \in 1..n : body[k].id = id
           S == {n \in 0..Len(body) : Frame(n) /\ Fits(n) /\ Taken(n)}
<1>3. 0 \in S
  BY <1>1, <1>2
<1>4. ASSUME NEW n \in 1..Len(body), n - 1 \in S PROVE n \in S
  <2> DEFINE p == q[n - 1]
             g == body[n]
  <2>1. g \in Fields /\ p \in Readers /\ q[n] = ReadInSlot(slot, p, g) /\ n \in 0..Len(body)
        /\ n - 1 \in 0..Len(body)
    BY <1>1, <1>2, <1>4
  <2>2. CASE p.err # "ok"
    <3>1. q[n] = p
      BY <2>1, <2>2 DEF ReadInSlot
    <3>2. ~(ValidParticipant(f) /\ r.obj.slots[slot].seen = {})
      BY <1>4, <2>2
    <3> QED BY <1>4, <2>1, <2>2, <3>1, <3>2
  <2>3. CASE p.err = "ok"
    <3>1. Frame(n)
      <4>1. Frame(n - 1)
        BY <1>4
      <4> QED BY <2>1, <2>3, <4>1, SlotStep
    <3>2. Fits(n)
      <4> SUFFICES ASSUME q[n].err = "ok" PROVE Fits(n)
        OBVIOUS
      <4>1. /\ g.id \in InParticipant /\ g.ok = "yes" /\ g.id \notin p.obj.slots[slot].seen
            /\ q[n].obj.slots[slot].seen = p.obj.slots[slot].seen \cup {g.id}
            /\ q[n].obj.slots[slot][g.id] = g.val
            /\ \A id \in InParticipant \ {g.id} :
                 q[n].obj.slots[slot][id] = p.obj.slots[slot][id]
        BY <2>1, <2>3, SlotStep
      <4>2. Fits(n - 1)
        BY <1>4
      <4>3. \A k \in 1..(n - 1) : body[k].id # g.id /\ body[k].id \in InParticipant
        BY <2>3, <4>1, <4>2
      <4>4. \A k \in 1..n : k = n \/ k \in 1..(n - 1)
        OBVIOUS
      <4> QED BY <2>3, <4>1, <4>2, <4>3, <4>4
    <3>3. Taken(n)
      <4> SUFFICES ASSUME ValidParticipant(f), r.obj.slots[slot].seen = {} PROVE Taken(n)
        OBVIOUS
      <4>1. \A id \in p.obj.slots[slot].seen : \E k \in 1..(n - 1) : body[k].id = id
        BY <1>4
      <4>2. g.id \in InParticipant /\ g.ok = "yes"
        BY <1>1 DEF ValidParticipant, body
      <4>3. \A k \in 1..(n - 1) : body[k].id # g.id
        <5>1. AtMostOnce(body, {g.id})
          BY <4>2 DEF ValidParticipant, body
        <5> QED BY <1>1, <5>1 DEF AtMostOnce, Occurrences
      <4>4. g.id \notin p.obj.slots[slot].seen
        BY <4>1, <4>3
      <4>5. q[n].err = "ok" /\ q[n].obj.slots[slot].seen = p.obj.slots[slot].seen \cup {g.id}
        BY <2>1, <2>3, <4>2, <4>4, SlotStep
      <4> QED BY <4>1, <4>5
    <3> HIDE DEF Frame, Fits, Taken
    <3> QED BY <2>1, <3>1, <3>2, <3>3
  <2> QED BY <2>2, <2>3
<1>5. Frame(Len(body)) /\ Fits(Len(body)) /\ Taken(Len(body))
  <2>1. \A n \in 0..Len(body) : n \in S
    <3> HIDE DEF S
    <3> QED BY <1>1, <1>3, <1>4, LoopInduction
  <2> HIDE DEF Frame, Fits, Taken
  <2> QED BY <1>1, <2>1
<1>6. d = q[Len(body)] /\ DOMAIN body = 1..Len(body)
  BY <1>1 DEF q, body
<1>7. ASSUME d.err = "ok"
      PROVE  /\ ValidParticipant(f)
             /\ \A id \in InParticipant :
                  d.obj.slots[slot][id] = IF Occurrences(body, {id}) = {}
                                            THEN r.obj.slots[slot][id]
                                            ELSE Found(body, {id}).val
  <2>1. ValidParticipant(f)
    BY <1>5, <1>6, <1>7 DEF ValidParticipant, AtMostOnce, Occurrences, body
  <2>2. ASSUME NEW id \in InParticipant
        PROVE  d.obj.slots[slot][id] = IF Occurrences(body, {id}) = {}
                                         THEN r.obj.slots[slot][id]
                                         ELSE Found(body, {id}).val
    <3>1. CASE Occurrences(body, {id}) = {}
      BY <1>5, <1>6, <1>7, <3>1 DEF Occurrences
    <3>2. ASSUME NEW k \in Occurrences(body, {id})
          PROVE  d.obj.slots[slot][id] = Found(body, {id}).val
      <4>1. AtMostOnce(body, {id})
        BY <2>1 DEF ValidParticipant, body
      <4>2. Found(body, {id}) = body[k]
        BY <4>1, FoundIs
      <4>3. k \in 1..Len(body) /\ body[k].id = id
        BY <1>6 DEF Occurrences
      <4> QED BY <1>5, <1>6, <1>7, <4>2, <4>3
    <3> QED BY <3>1, <3>2
  <2> QED BY <2>1, <2>2
<1> QED BY <1>5, <1>6, <1>7 DEF body, SlotResult

LEMMA ParticipantStep ==
  ASSUME NEW r \in Readers, r.err = "ok", NEW f \in Fields, NEW d, d = ReadParticipant(r, f)
  PROVE  /\ d \in Readers
         /\ d.err = "ok" =>
              /\ r.obj.participants < MaxParticipants /\ f.ok = "yes" /\ ValidParticipant(f)
              /\ d.obj.seen = r.obj.seen /\ d.obj.fields = r.obj.fields
              /\ d.obj.multisig = r.obj.multisig
              /\ d.obj.participants = r.obj.participants + 1
              /\ \A s \in Slots \ {r.obj.participants} : d.obj.slots[s] = r.obj.slots[s]
              /\ \A id \in InParticipant :
                   d.obj.slots[r.obj.participants][id] =
                     IF Occurrences(f.body, {id}) = {} THEN r.obj.slots[r.obj.participants][id]
                     ELSE Found(f.body, {id}).val
         /\ /\ r.obj.participants < MaxParticipants /\ f.ok = "yes" /\ ValidParticipant(f)
            /\ r.obj.slots[r.obj.participants].seen = {}
            => d.err = "ok"
<1> DEFINE slot == r.obj.participants
           done == SlotTurns(r, slot, f.body)[Len(f.body)]
<1>1. slot \in 0..MaxParticipants /\ MaxParticipants \in Nat /\ f.ok \in {"yes", "late", "no"}
  BY ReaderType, FieldType, Limits
<1>2. CASE slot >= MaxParticipants
  <2>1. d = Fail(r, "unexpected_number_items")
    BY <1>2 DEF ReadParticipant
  <2>2. d \in Readers /\ d.err # "ok"
    BY <2>1, FailType DEF Errors
  <2> QED BY <1>1, <1>2, <2>2
<1>3. CASE slot < MaxParticipants /\ f.ok # "yes"
  <2>1. d = Fail(r, "unreadable")
    BY <1>1, <1>3 DEF ReadParticipant
  <2>2. d \in Readers /\ d.err # "ok"
    BY <2>1, FailType DEF Errors
  <2> QED BY <1>3, <2>2
<1>4. CASE slot < MaxParticipants /\ f.ok = "yes"
  <2>1. slot \in Slots
    BY <1>1, <1>4 DEF Slots
  <2>2. d = IF done.err = "ok" THEN NextSlot(done) ELSE done
    BY <1>1, <1>4 DEF ReadParticipant
  <2>3. SlotResult(r, slot, f, done)
    BY <2>1, SlotRead
  <2> HIDE DEF done
  <2>4. CASE done.err # "ok"
    BY <2>2, <2>3, <2>4 DEF SlotResult
  <2>5. CASE done.err = "ok"
    <3>1. d = NextSlot(done)
      BY <2>2, <2>5
    <3>2. done.obj.participants + 1 \in 0..MaxParticipants
      BY <1>1, <1>4, <2>3 DEF SlotResult
    <3>3. /\ d \in Readers /\ d.err = "ok"
          /\ d.obj.seen = done.obj.seen /\ d.obj.fields = done.obj.fields
          /\ d.obj.multisig = done.obj.multisig /\ d.obj.slots = done.obj.slots
          /\ d.obj.participants = done.obj.participants + 1
      BY <2>3, <2>5, <3>1, <3>2 DEF SlotResult, NextSlot, Readers, Objs
    <3> QED BY <1>4, <2>3, <2>5, <3>3 DEF SlotResult
  <2> QED BY <2>4, <2>5
<1>5. slot >= MaxParticipants \/ (slot < MaxParticipants /\ (f.ok # "yes" \/ f.ok = "yes"))
  BY <1>1
<1> QED BY <1>2, <1>3, <1>4, <1>5

-------------------------------------------------------------------------------
(* One turn of the loop of a struct *)

LEMMA MultisigStep ==
  ASSUME NEW r \in Readers, r.err = "ok", NEW f \in Fields, NEW d, d = ReadMultisig(r, f)
  PROVE  /\ d \in Readers
         /\ d.err = "ok" <=> Len(r.obj.multisig) < MaxMultisig /\ f.ok = "yes"
         /\ d.err = "ok" =>
              /\ d.obj.seen = r.obj.seen /\ d.obj.fields = r.obj.fields
              /\ d.obj.participants = r.obj.participants /\ d.obj.slots = r.obj.slots
              /\ d.obj.multisig = Append(r.obj.multisig, f.val)
<1>1. /\ r.obj.multisig \in Seq(Nat) /\ Len(r.obj.multisig) \in 0..MaxMultisig
      /\ MaxMultisig \in Nat /\ f.ok \in {"yes", "late", "no"} /\ f.val \in Nat
  BY ReaderType, FieldType, Limits
<1>2. CASE Len(r.obj.multisig) >= MaxMultisig
  <2>1. d = Fail(r, "value_out_of_range")
    BY <1>2 DEF ReadMultisig
  <2>2. d \in Readers /\ d.err # "ok"
    BY <2>1, FailType DEF Errors
  <2> QED BY <1>1, <1>2, <2>2
<1>3. CASE Len(r.obj.multisig) < MaxMultisig /\ f.ok # "yes"
  <2>1. d = Fail(r, "unreadable")
    BY <1>1, <1>3 DEF ReadMultisig
  <2>2. d \in Readers /\ d.err # "ok"
    BY <2>1, FailType DEF Errors
  <2> QED BY <1>3, <2>2
<1>4. CASE Len(r.obj.multisig) < MaxMultisig /\ f.ok = "yes"
  <2>1. d = Count(r, f)
    BY <1>1, <1>4 DEF ReadMultisig
  <2>2. Append(r.obj.multisig, f.val) \in {s \in Seq(Nat) : Len(s) <= MaxMultisig}
    BY <1>1, <1>4
  <2>3. /\ d \in Readers /\ d.err = "ok"
        /\ d.obj.seen = r.obj.seen /\ d.obj.fields = r.obj.fields
        /\ d.obj.participants = r.obj.participants /\ d.obj.slots = r.obj.slots
        /\ d.obj.multisig = Append(r.obj.multisig, f.val)
    BY <2>1, <2>2 DEF Count, Readers, Objs
  <2> QED BY <1>4, <2>3
<1> QED BY <1>1, <1>2, <1>3, <1>4

LEMMA OnceStep ==
  ASSUME NEW r \in Readers, r.err = "ok", NEW struct \in Structs, NEW f \in Fields,
         f.id \in Single(struct), NEW d, d = ReadOnce(r, struct, f)
  PROVE  /\ d \in Readers
         /\ d.err = "ok" <=> Bit(f.id) \notin r.obj.seen[struct] /\ f.ok = "yes"
         /\ d.err = "ok" =>
              /\ d.obj.multisig = r.obj.multisig
              /\ d.obj.participants = r.obj.participants /\ d.obj.slots = r.obj.slots
              /\ \A s \in Structs \ {struct} : /\ d.obj.seen[s] = r.obj.seen[s]
                                               /\ d.obj.fields[s] = r.obj.fields[s]
              /\ d.obj.seen[struct] = r.obj.seen[struct] \cup {Bit(f.id)}
              /\ d.obj.fields[struct][f.id] = f
              /\ \A id \in Single(struct) \ {f.id} :
                   d.obj.fields[struct][id] = r.obj.fields[struct][id]
<1>1. /\ r.obj.seen \in [Structs -> SUBSET Bits] /\ r.obj.fields \in FieldTypes
      /\ f.ok \in {"yes", "late", "no"} /\ Bit(f.id) \in Bits
  BY ReaderType, FieldType DEF Bits
<1> DEFINE marked == See(r, struct, f)
           full == Keep(marked, struct, f)
<1>2. CASE Bit(f.id) \in r.obj.seen[struct]
  <2>1. d = Fail(r, "duplicated_field")
    BY <1>2 DEF ReadOnce
  <2>2. d \in Readers /\ d.err # "ok"
    BY <2>1, FailType DEF Errors
  <2> QED BY <1>2, <2>2
<1>3. CASE Bit(f.id) \notin r.obj.seen[struct]
  <2>1. /\ marked \in Readers /\ marked.err = "ok"
        /\ marked.obj.fields = r.obj.fields /\ marked.obj.multisig = r.obj.multisig
        /\ marked.obj.participants = r.obj.participants /\ marked.obj.slots = r.obj.slots
        /\ marked.obj.seen = [r.obj.seen EXCEPT ![struct] = @ \cup {Bit(f.id)}]
    BY <1>1 DEF See, Readers, Objs
  <2>2. r.obj.fields[struct] \in [Single(struct) -> Fields \cup {NoField}]
    BY <1>1 DEF FieldTypes
  <2>3. [r.obj.fields EXCEPT ![struct][f.id] = f] \in FieldTypes
    BY <1>1, <2>2 DEF FieldTypes
  <2>4. /\ full \in Readers /\ full.err = "ok"
        /\ full.obj.seen = marked.obj.seen /\ full.obj.multisig = marked.obj.multisig
        /\ full.obj.participants = marked.obj.participants /\ full.obj.slots = marked.obj.slots
        /\ full.obj.fields = [r.obj.fields EXCEPT ![struct][f.id] = f]
    BY <2>1, <2>3 DEF Keep, Readers, Objs
  <2>5. d = IF f.ok = "no" THEN Fail(marked, "unreadable")
            ELSE IF f.ok = "late" THEN Fail(full, "unreadable") ELSE full
    BY <1>3 DEF ReadOnce
  <2> HIDE DEF marked, full
  <2>6. CASE f.ok # "yes"
    <3>1. d \in Readers /\ d.err # "ok"
      BY <1>1, <2>1, <2>4, <2>5, <2>6, FailType DEF Errors
    <3> QED BY <2>6, <3>1
  <2>7. CASE f.ok = "yes"
    <3>1. /\ d \in Readers /\ d.err = "ok"
          /\ d.obj.multisig = r.obj.multisig
          /\ d.obj.participants = r.obj.participants /\ d.obj.slots = r.obj.slots
          /\ d.obj.seen = [r.obj.seen EXCEPT ![struct] = @ \cup {Bit(f.id)}]
          /\ d.obj.fields = [r.obj.fields EXCEPT ![struct][f.id] = f]
      BY <2>1, <2>4, <2>5, <2>7
    <3>2. /\ \A s \in Structs \ {struct} : /\ d.obj.seen[s] = r.obj.seen[s]
                                           /\ d.obj.fields[s] = r.obj.fields[s]
          /\ d.obj.seen[struct] = r.obj.seen[struct] \cup {Bit(f.id)}
          /\ d.obj.fields[struct] = [r.obj.fields[struct] EXCEPT ![f.id] = f]
      BY <1>1, <2>2, <3>1 DEF FieldTypes
    <3>3. /\ d.obj.fields[struct][f.id] = f
          /\ \A id \in Single(struct) \ {f.id} :
               d.obj.fields[struct][id] = r.obj.fields[struct][id]
      BY <2>2, <3>2
    <3> QED BY <1>3, <2>7, <3>1, <3>2, <3>3
  <2> QED BY <1>1, <2>6, <2>7
<1> QED BY <1>2, <1>3

\* What can be taken from p as one more field of the struct
Takes(p, struct, f) ==
  /\ f.id \in KnownIn(struct) /\ f.ok = "yes"
  /\ f.id \in Single(struct) => Bit(f.id) \notin p.obj.seen[struct]
  /\ f.id = "multisig" => Len(p.obj.multisig) < MaxMultisig
  /\ f.id = "participants" => p.obj.participants < MaxParticipants /\ ValidParticipant(f)

\* What is taken
Taken(p, struct, f, d) ==
  /\ \A s \in Structs \ {struct} : /\ d.obj.seen[s] = p.obj.seen[s]
                                   /\ d.obj.fields[s] = p.obj.fields[s]
  /\ IF f.id \in Single(struct)
       THEN /\ d.obj.seen[struct] = p.obj.seen[struct] \cup {Bit(f.id)}
            /\ d.obj.fields[struct][f.id] = f
            /\ \A id \in Single(struct) \ {f.id} :
                 d.obj.fields[struct][id] = p.obj.fields[struct][id]
       ELSE d.obj.seen[struct] = p.obj.seen[struct] /\ d.obj.fields[struct] = p.obj.fields[struct]
  /\ d.obj.multisig = IF f.id = "multisig" THEN Append(p.obj.multisig, f.val)
                                           ELSE p.obj.multisig
  /\ IF f.id = "participants"
       THEN /\ d.obj.participants = p.obj.participants + 1
            /\ \A s \in Slots \ {p.obj.participants} : d.obj.slots[s] = p.obj.slots[s]
            /\ \A id \in InParticipant :
                 d.obj.slots[p.obj.participants][id] =
                   IF Occurrences(f.body, {id}) = {} THEN p.obj.slots[p.obj.participants][id]
                   ELSE Found(f.body, {id}).val
       ELSE d.obj.participants = p.obj.participants /\ d.obj.slots = p.obj.slots

\* A turn takes the field, or refuses it and is the last.
LEMMA Turn ==
  ASSUME NEW p \in Readers, NEW struct \in Structs, NEW f \in Fields,
         NEW d, d = ReadField(p, struct, f)
  PROVE  /\ d \in Readers
         /\ p.err # "ok" => d = p
         /\ p.err = "ok" /\ d.err = "ok" => Takes(p, struct, f) /\ Taken(p, struct, f, d)
         /\ /\ p.err = "ok" /\ Takes(p, struct, f)
            /\ f.id = "participants" => p.obj.slots[p.obj.participants].seen = {}
            => d.err = "ok"
<1>1. CASE p.err # "ok"
  BY <1>1 DEF ReadField
<1>2. CASE p.err = "ok" /\ f.id \notin KnownIn(struct)
  <2>1. d = Fail(p, "unexpected_field")
    BY <1>2 DEF ReadField
  <2>2. d \in Readers /\ d.err # "ok"
    BY <2>1, FailType DEF Errors
  <2> QED BY <1>2, <2>2 DEF Takes
<1>3. CASE p.err = "ok" /\ f.id \in KnownIn(struct) /\ f.id = "multisig"
  <2>1. d = ReadMultisig(p, f)
    BY <1>3 DEF ReadField
  <2>2. "multisig" \notin Single(struct)
    BY DEF Single, Repeated
  <2>3. /\ d \in Readers
        /\ d.err = "ok" <=> Len(p.obj.multisig) < MaxMultisig /\ f.ok = "yes"
        /\ d.err = "ok" =>
             /\ d.obj.seen = p.obj.seen /\ d.obj.fields = p.obj.fields
             /\ d.obj.participants = p.obj.participants /\ d.obj.slots = p.obj.slots
             /\ d.obj.multisig = Append(p.obj.multisig, f.val)
    BY <1>3, <2>1, MultisigStep
  <2> QED BY <1>3, <2>2, <2>3 DEF Takes, Taken
<1>4. CASE p.err = "ok" /\ f.id \in KnownIn(struct) /\ f.id = "participants"
  <2>1. d = ReadParticipant(p, f)
    BY <1>4 DEF ReadField
  <2>2. "participants" \notin Single(struct)
    BY DEF Single, Repeated
  <2>3. /\ d \in Readers
        /\ d.err = "ok" =>
             /\ p.obj.participants < MaxParticipants /\ f.ok = "yes" /\ ValidParticipant(f)
             /\ d.obj.seen = p.obj.seen /\ d.obj.fields = p.obj.fields
             /\ d.obj.multisig = p.obj.multisig
             /\ d.obj.participants = p.obj.participants + 1
             /\ \A s \in Slots \ {p.obj.participants} : d.obj.slots[s] = p.obj.slots[s]
             /\ \A id \in InParticipant :
                  d.obj.slots[p.obj.participants][id] =
                    IF Occurrences(f.body, {id}) = {} THEN p.obj.slots[p.obj.participants][id]
                    ELSE Found(f.body, {id}).val
        /\ /\ p.obj.participants < MaxParticipants /\ f.ok = "yes" /\ ValidParticipant(f)
           /\ p.obj.slots[p.obj.participants].seen = {}
           => d.err = "ok"
    BY <1>4, <2>1, ParticipantStep
  <2> QED BY <1>4, <2>2, <2>3 DEF Takes, Taken
<1>5. CASE p.err = "ok" /\ f.id \in KnownIn(struct) /\ f.id # "multisig" /\ f.id # "participants"
  <2>1. d = ReadOnce(p, struct, f)
    BY <1>5 DEF ReadField
  <2>2. f.id \in Single(struct)
    BY <1>5 DEF Single, Repeated
  <2>3. /\ d \in Readers
        /\ d.err = "ok" <=> Bit(f.id) \notin p.obj.seen[struct] /\ f.ok = "yes"
        /\ d.err = "ok" =>
             /\ d.obj.multisig = p.obj.multisig
             /\ d.obj.participants = p.obj.participants /\ d.obj.slots = p.obj.slots
             /\ \A s \in Structs \ {struct} : /\ d.obj.seen[s] = p.obj.seen[s]
                                              /\ d.obj.fields[s] = p.obj.fields[s]
             /\ d.obj.seen[struct] = p.obj.seen[struct] \cup {Bit(f.id)}
             /\ d.obj.fields[struct][f.id] = f
             /\ \A id \in Single(struct) \ {f.id} :
                  d.obj.fields[struct][id] = p.obj.fields[struct][id]
    BY <1>5, <2>1, <2>2, OnceStep
  <2> QED BY <1>5, <2>2, <2>3 DEF Takes, Taken
<1> QED BY <1>1, <1>2, <1>3, <1>4, <1>5

-------------------------------------------------------------------------------
(* The loop of a struct *)

\* What an accepted body is, and what it leaves: the fields of the struct are
\* those of the body, and the other structs are as they were.
StructResult(r, struct, body, d) ==
  /\ d \in Readers
  /\ d.err = "ok" =>
       /\ \A n \in DOMAIN body : body[n].id \in KnownIn(struct) /\ body[n].ok = "yes"
       /\ \A id \in Single(struct) : AtMostOnce(body, {id})
       /\ struct = "root" => AtMostOnce(body, Kinds)
       /\ \A id \in Single(struct) :
            d.obj.fields[struct][id] = IF Occurrences(body, {id}) = {} THEN r.obj.fields[struct][id]
                                       ELSE Found(body, {id})
       /\ \A s \in Structs \ {struct} : /\ d.obj.seen[s] = r.obj.seen[s]
                                        /\ d.obj.fields[s] = r.obj.fields[s]
       /\ struct # "root" => d.obj.multisig = r.obj.multisig
       /\ struct # "update" => /\ d.obj.participants = r.obj.participants
                               /\ d.obj.slots = r.obj.slots

LEMMA StructRead ==
  ASSUME NEW r \in Readers, r.err = "ok", NEW struct \in Structs, NEW body \in Seq(Fields)
  PROVE  StructResult(r, struct, body, ReadStruct(r, struct, body))
<1> DEFINE q == Turns(r, struct, body)
<1>1. Len(body) \in Nat /\ DOMAIN body = 1..Len(body)
  OBVIOUS
<1>2. /\ q[0] = r
      /\ \A n \in 1..Len(body) : q[n] = ReadField(q[n - 1], struct, body[n])
  BY StructLoop
<1>3. ReadStruct(r, struct, body) = q[Len(body)]
  BY DEF ReadStruct
<1> HIDE DEF q
<1> DEFINE Once(n) ==
             /\ \A k \in 1..n : body[k].id \in KnownIn(struct) /\ body[k].ok = "yes"
             /\ \A k \in 1..n : body[k].id \in Single(struct) =>
                  /\ Bit(body[k].id) \in q[n].obj.seen[struct]
                  /\ q[n].obj.fields[struct][body[k].id] = body[k]
             /\ \A j, k \in 1..n :
                  /\ body[j].id \in Single(struct) /\ body[k].id \in Single(struct)
                  /\ Bit(body[j].id) = Bit(body[k].id)
                  => j = k
             /\ \A id \in Single(struct) : (\A k \in 1..n : body[k].id # id) =>
                  q[n].obj.fields[struct][id] = r.obj.fields[struct][id]
           Frame(n) ==
             /\ \A s \in Structs \ {struct} : /\ q[n].obj.seen[s] = r.obj.seen[s]
                                              /\ q[n].obj.fields[s] = r.obj.fields[s]
             /\ struct # "root" => q[n].obj.multisig = r.obj.multisig
             /\ struct # "update" => /\ q[n].obj.participants = r.obj.participants
                                     /\ q[n].obj.slots = r.obj.slots
           S == {n \in 0..Len(body) : q[n] \in Readers /\ (q[n].err = "ok" => Once(n) /\ Frame(n))}
<1>4. 0 \in S
  BY <1>1, <1>2
<1>5. ASSUME NEW n \in 1..Len(body), n - 1 \in S PROVE n \in S
  <2> DEFINE p == q[n - 1]
             g == body[n]
             d == q[n]
  <2>1. g \in Fields /\ p \in Readers /\ d = ReadField(p, struct, g) /\ n \in 0..Len(body)
        /\ n - 1 \in 0..Len(body)
    BY <1>2, <1>5
  <2>2. CASE p.err # "ok"
    <3>1. d = p
      BY <2>1, <2>2 DEF ReadField
    <3> QED BY <2>1, <2>2, <3>1
  <2>3. CASE p.err = "ok"
    <3>1. d \in Readers /\ (d.err = "ok" => Takes(p, struct, g) /\ Taken(p, struct, g, d))
      <4> HIDE DEF p, g, d
      <4> QED BY <2>1, <2>3, Turn
    <3>2. Once(n - 1) /\ Frame(n - 1)
      BY <1>5, <2>3
    <3>3. ASSUME d.err = "ok" PROVE Once(n)
      <4>1. \A k \in 1..n : k = n \/ k \in 1..(n - 1)
        OBVIOUS
      <4>2. /\ g.id \in KnownIn(struct) /\ g.ok = "yes"
            /\ g.id \in Single(struct) => Bit(g.id) \notin p.obj.seen[struct]
        BY <3>1, <3>3 DEF Takes
      <4>3. IF g.id \in Single(struct)
              THEN /\ d.obj.seen[struct] = p.obj.seen[struct] \cup {Bit(g.id)}
                   /\ d.obj.fields[struct][g.id] = g
                   /\ \A id \in Single(struct) \ {g.id} :
                        d.obj.fields[struct][id] = p.obj.fields[struct][id]
              ELSE /\ d.obj.seen[struct] = p.obj.seen[struct]
                   /\ d.obj.fields[struct] = p.obj.fields[struct]
        BY <3>1, <3>3 DEF Taken
      <4>4. \A k \in 1..(n - 1) :
              body[k].id \in Single(struct) /\ g.id \in Single(struct) => Bit(body[k].id) # Bit(g.id)
        BY <3>2, <4>2
      <4>5. \A k \in 1..(n - 1) :
              body[k].id \in Single(struct) /\ g.id \in Single(struct) => body[k].id # g.id
        BY <4>4
      <4>6. \A k \in 1..n : body[k].id \in Single(struct) =>
              /\ Bit(body[k].id) \in d.obj.seen[struct]
              /\ d.obj.fields[struct][body[k].id] = body[k]
        BY <3>2, <4>1, <4>3, <4>5
      <4> QED BY <3>2, <4>1, <4>2, <4>3, <4>4, <4>6
    <3>4. ASSUME d.err = "ok" PROVE Frame(n)
      <4>1. Taken(p, struct, g, d) /\ g.id \in KnownIn(struct)
        BY <3>1, <3>4 DEF Takes
      <4>2. (g.id = "multisig" => struct = "root") /\ (g.id = "participants" => struct = "update")
        BY <4>1, KnownNames
      <4> QED BY <3>2, <4>1, <4>2 DEF Taken
    <3> HIDE DEF Once, Frame
    <3> QED BY <2>1, <3>1, <3>3, <3>4
  <2> QED BY <2>2, <2>3
<1> DEFINE d == q[Len(body)]
<1>6. d \in Readers /\ (d.err = "ok" => Once(Len(body)) /\ Frame(Len(body)))
  <2>1. \A n \in 0..Len(body) : n \in S
    <3> HIDE DEF S
    <3> QED BY <1>1, <1>4, <1>5, LoopInduction
  <2> HIDE DEF Once, Frame
  <2> QED BY <1>1, <2>1
<1>7. ASSUME d.err = "ok" PROVE \A id \in Single(struct) : AtMostOnce(body, {id})
  BY <1>1, <1>6, <1>7 DEF AtMostOnce, Occurrences
<1>8. ASSUME d.err = "ok", struct = "root" PROVE AtMostOnce(body, Kinds)
  <2>1. \A id \in Kinds : id \in Single(struct) /\ Bit(id) = "tx_message"
    BY <1>8, SingleNames DEF Kinds, Bit
  <2> QED BY <1>1, <1>6, <1>8, <2>1 DEF AtMostOnce, Occurrences
<1>9. ASSUME d.err = "ok", NEW id \in Single(struct)
      PROVE  d.obj.fields[struct][id] =
               IF Occurrences(body, {id}) = {} THEN r.obj.fields[struct][id]
               ELSE Found(body, {id})
  <2>1. CASE Occurrences(body, {id}) = {}
    BY <1>1, <1>6, <1>9, <2>1 DEF Occurrences
  <2>2. ASSUME NEW k \in Occurrences(body, {id}) PROVE d.obj.fields[struct][id] = Found(body, {id})
    <3>1. Found(body, {id}) = body[k]
      BY <1>7, <1>9, FoundIs
    <3>2. k \in 1..Len(body) /\ body[k].id = id
      BY <1>1 DEF Occurrences
    <3> QED BY <1>6, <1>9, <3>1, <3>2
  <2> QED BY <2>1, <2>2
<1> QED BY <1>1, <1>3, <1>6, <1>7, <1>8, <1>9 DEF StructResult

\* The counters that the loop has read, in the order of their fields
LEMMA CountersRead ==
  ASSUME NEW r \in Readers, r.obj.multisig = <<>>, NEW struct \in Structs,
         NEW body \in Seq(Fields), NEW n \in 0..Len(body),
         Turns(r, struct, body)[n].err = "ok"
  PROVE  LET o == Turns(r, struct, body)[n].obj
         IN  /\ Len(o.multisig) = Rank(body, "multisig", n)
             /\ \A k \in 1..n : body[k].id = "multisig" =>
                  o.multisig[Rank(body, "multisig", k)] = body[k].val
<1> DEFINE q == Turns(r, struct, body)
           R(k) == Rank(body, "multisig", k)
<1>1. Len(body) \in Nat
  OBVIOUS
<1>2. /\ q[0] = r
      /\ \A k \in 1..Len(body) : q[k] = ReadField(q[k - 1], struct, body[k])
  BY StructLoop
<1>3. /\ R(0) = 0 /\ \A k \in Nat : R(k) \in Nat
      /\ \A k \in 1..Len(body) : /\ body[k].id = "multisig" => R(k) = R(k - 1) + 1
                                 /\ body[k].id # "multisig" => R(k) = R(k - 1)
      /\ \A m \in 0..Len(body) : \A k \in 1..m : body[k].id = "multisig" => R(k) \in 1..R(m)
  <2>1. R(0) = 0 /\ \A k \in Nat : R(k) \in Nat
    BY RankStep
  <2>3. \A k \in 1..Len(body) : /\ body[k].id = "multisig" => R(k) = R(k - 1) + 1
                                /\ body[k].id # "multisig" => R(k) = R(k - 1)
    BY RankStep
  <2>2. \A m \in 0..Len(body) : \A k \in 1..m : body[k].id = "multisig" => R(k) \in 1..R(m)
    BY RankOrder
  <2> HIDE DEF R
  <2> QED BY <2>1, <2>2, <2>3
<1> HIDE DEF q, R
<1> DEFINE Counted(m) ==
             /\ Len(q[m].obj.multisig) = R(m)
             /\ \A k \in 1..m : body[k].id = "multisig" => q[m].obj.multisig[R(k)] = body[k].val
           S == {m \in 0..Len(body) : q[m] \in Readers /\ (q[m].err = "ok" => Counted(m))}
<1>4. 0 \in S
  BY <1>1, <1>2, <1>3
<1>5. ASSUME NEW m \in 1..Len(body), m - 1 \in S PROVE m \in S
  <2> DEFINE p == q[m - 1]
             g == body[m]
             d == q[m]
  <2>1. g \in Fields /\ p \in Readers /\ d = ReadField(p, struct, g) /\ m \in 0..Len(body)
        /\ m - 1 \in 0..Len(body)
    BY <1>2, <1>5
  <2>2. CASE p.err # "ok"
    <3>1. d = p
      BY <2>1, <2>2 DEF ReadField
    <3> QED BY <2>1, <2>2, <3>1
  <2>3. CASE p.err = "ok"
    <3>1. d \in Readers /\ (d.err = "ok" => Taken(p, struct, g, d))
      <4> HIDE DEF p, g, d
      <4> QED BY <2>1, <2>3, Turn
    <3>2. ASSUME d.err = "ok" PROVE Counted(m)
      <4>1. Counted(m - 1) /\ (g.id = "multisig" => R(m) = R(m - 1) + 1)
            /\ (g.id # "multisig" => R(m) = R(m - 1))
        BY <1>3, <1>5, <2>3
      <4>2. d.obj.multisig = IF g.id = "multisig" THEN Append(p.obj.multisig, g.val)
                                                  ELSE p.obj.multisig
        BY <3>1, <3>2 DEF Taken
      <4>3. p.obj.multisig \in Seq(Nat) /\ g.val \in Nat
        BY <2>1, ReaderType, FieldType
      <4>4. \A k \in 1..(m - 1) : body[k].id = "multisig" => R(k) \in 1..R(m - 1)
        BY <1>3, <2>1
      <4>5. \A k \in 1..m : k = m \/ k \in 1..(m - 1)
        OBVIOUS
      <4>6. R(m - 1) \in Nat
        BY <1>3, <2>1
      <4>7. CASE g.id = "multisig"
        BY <4>1, <4>2, <4>3, <4>4, <4>5, <4>6, <4>7
      <4>8. CASE g.id # "multisig"
        BY <4>1, <4>2, <4>5, <4>6, <4>8
      <4> QED BY <4>7, <4>8
    <3> HIDE DEF Counted
    <3> QED BY <2>1, <3>1, <3>2
  <2> QED BY <2>2, <2>3
<1>6. \A m \in 0..Len(body) : m \in S
  <2> HIDE DEF S
  <2> QED BY <1>1, <1>4, <1>5, LoopInduction
<1> QED BY <1>6 DEF q, R

\* The participants that the loop has read, each into the next slot
ReadSlots(old, body, n, o) ==
  /\ o.participants = Rank(body, "participants", n)
  /\ \A k \in 1..n : body[k].id = "participants" =>
       /\ ValidParticipant(body[k])
       /\ \A id \in InParticipant :
            o.slots[Rank(body, "participants", k) - 1][id] =
              IF Occurrences(body[k].body, {id}) = {}
                THEN old[Rank(body, "participants", k) - 1][id]
                ELSE Found(body[k].body, {id}).val
  /\ \A s \in Slots : s >= Rank(body, "participants", n) => o.slots[s] = old[s]

LEMMA ParticipantsRead ==
  ASSUME NEW r \in Readers, r.obj.participants = 0, NEW struct \in Structs,
         NEW body \in Seq(Fields), NEW n \in 0..Len(body),
         Turns(r, struct, body)[n].err = "ok"
  PROVE  ReadSlots(r.obj.slots, body, n, Turns(r, struct, body)[n].obj)
<1> DEFINE q == Turns(r, struct, body)
           R(k) == Rank(body, "participants", k)
<1>1. Len(body) \in Nat
  OBVIOUS
<1>2. /\ q[0] = r
      /\ \A k \in 1..Len(body) : q[k] = ReadField(q[k - 1], struct, body[k])
  BY StructLoop
<1>3. /\ R(0) = 0 /\ \A k \in Nat : R(k) \in Nat
      /\ \A k \in 1..Len(body) : /\ body[k].id = "participants" => R(k) = R(k - 1) + 1
                                 /\ body[k].id # "participants" => R(k) = R(k - 1)
      /\ \A m \in 0..Len(body) : \A k \in 1..m : body[k].id = "participants" => R(k) \in 1..R(m)
  <2>1. R(0) = 0 /\ \A k \in Nat : R(k) \in Nat
    BY RankStep
  <2>3. \A k \in 1..Len(body) : /\ body[k].id = "participants" => R(k) = R(k - 1) + 1
                                /\ body[k].id # "participants" => R(k) = R(k - 1)
    BY RankStep
  <2>2. \A m \in 0..Len(body) : \A k \in 1..m : body[k].id = "participants" => R(k) \in 1..R(m)
    BY RankOrder
  <2> HIDE DEF R
  <2> QED BY <2>1, <2>2, <2>3
<1> HIDE DEF q, R
<1> DEFINE S == {m \in 0..Len(body) :
                   q[m] \in Readers /\ (q[m].err = "ok" => ReadSlots(r.obj.slots, body, m, q[m].obj))}
<1>4. 0 \in S
  BY <1>1, <1>2, <1>3 DEF ReadSlots, R
<1>5. ASSUME NEW m \in 1..Len(body), m - 1 \in S PROVE m \in S
  <2> DEFINE p == q[m - 1]
             g == body[m]
             d == q[m]
  <2>1. g \in Fields /\ p \in Readers /\ d = ReadField(p, struct, g) /\ m \in 0..Len(body)
        /\ m - 1 \in 0..Len(body)
    BY <1>2, <1>5
  <2>2. CASE p.err # "ok"
    <3>1. d = p
      BY <2>1, <2>2 DEF ReadField
    <3> QED BY <2>1, <2>2, <3>1
  <2>3. CASE p.err = "ok"
    <3>1. d \in Readers /\ (d.err = "ok" => Takes(p, struct, g) /\ Taken(p, struct, g, d))
      <4> HIDE DEF p, g, d
      <4> QED BY <2>1, <2>3, Turn
    <3>2. ASSUME d.err = "ok" PROVE ReadSlots(r.obj.slots, body, m, d.obj)
      <4>1. ReadSlots(r.obj.slots, body, m - 1, p.obj)
            /\ (g.id = "participants" => R(m) = R(m - 1) + 1)
            /\ (g.id # "participants" => R(m) = R(m - 1))
        BY <1>3, <1>5, <2>3
      <4>2. \A k \in 1..(m - 1) : body[k].id = "participants" => R(k) \in 1..R(m - 1)
        BY <1>3, <2>1
      <4>3. \A k \in 1..m : k = m \/ k \in 1..(m - 1)
        OBVIOUS
      <4>4. R(m - 1) \in Nat /\ R(m) \in Nat
        BY <1>3, <2>1
      <4>5. CASE g.id = "participants"
        <5>1. /\ d.obj.participants = p.obj.participants + 1
              /\ \A s \in Slots \ {p.obj.participants} : d.obj.slots[s] = p.obj.slots[s]
              /\ \A id \in InParticipant :
                   d.obj.slots[p.obj.participants][id] =
                     IF Occurrences(g.body, {id}) = {} THEN p.obj.slots[p.obj.participants][id]
                     ELSE Found(g.body, {id}).val
              /\ ValidParticipant(g) /\ p.obj.participants < MaxParticipants
          BY <3>1, <3>2, <4>5 DEF Taken, Takes
        <5>2. p.obj.participants = R(m - 1) /\ R(m) = R(m - 1) + 1
          BY <4>1, <4>5 DEF ReadSlots, R
        <5>3. R(m - 1) \in Slots
          BY <4>4, <5>1, <5>2, Limits DEF Slots
        <5>4. p.obj.slots[R(m - 1)] = r.obj.slots[R(m - 1)]
          BY <4>1, <4>4, <5>3 DEF ReadSlots, R
        <5>5. ASSUME NEW k \in 1..m, body[k].id = "participants"
              PROVE  /\ ValidParticipant(body[k])
                     /\ \A id \in InParticipant :
                          d.obj.slots[R(k) - 1][id] =
                            IF Occurrences(body[k].body, {id}) = {}
                              THEN r.obj.slots[R(k) - 1][id]
                              ELSE Found(body[k].body, {id}).val
          <6>1. CASE k = m
            <7>1. R(k) - 1 = R(m - 1)
              BY <4>4, <5>2, <6>1
            <7>2. d.obj.slots[R(k) - 1] = d.obj.slots[p.obj.participants]
                  /\ r.obj.slots[R(k) - 1] = p.obj.slots[p.obj.participants] /\ body[k] = g
              BY <5>2, <5>4, <6>1, <7>1
            <7> HIDE DEF g, d, p
            <7> QED BY <5>1, <7>2
          <6>2. CASE k \in 1..(m - 1)
            <7>1. R(k) \in 1..R(m - 1)
              BY <4>2, <5>5, <6>2
            <7>2. R(k) - 1 \in Slots \ {R(m - 1)}
              BY <4>4, <5>3, <7>1, Limits DEF Slots
            <7>3. d.obj.slots[R(k) - 1] = p.obj.slots[R(k) - 1]
              BY <5>1, <5>2, <7>2
            <7> QED BY <4>1, <5>5, <6>2, <7>3 DEF ReadSlots, R
          <6> QED BY <4>3, <6>1, <6>2
        <5>6. ASSUME NEW s \in Slots, s >= R(m) PROVE d.obj.slots[s] = r.obj.slots[s]
          <6>1. s # R(m - 1) /\ s >= R(m - 1)
            BY <4>4, <5>2, <5>6 DEF Slots
          <6> QED BY <4>1, <5>1, <5>2, <6>1 DEF ReadSlots, R
        <5> QED BY <5>1, <5>2, <5>5, <5>6 DEF ReadSlots, R
      <4>6. CASE g.id # "participants"
        <5>1. d.obj.participants = p.obj.participants /\ d.obj.slots = p.obj.slots
          BY <3>1, <3>2, <4>6 DEF Taken
        <5>2. R(m) = R(m - 1)
          BY <4>1, <4>4, <4>6
        <5>3. \A k \in 1..m : body[k].id = "participants" => k \in 1..(m - 1)
          BY <4>3, <4>6
        <5>4. /\ p.obj.participants = R(m - 1)
              /\ \A s \in Slots : s >= R(m - 1) => p.obj.slots[s] = r.obj.slots[s]
          BY <4>1 DEF ReadSlots, R
        <5>5. ASSUME NEW k \in 1..m, body[k].id = "participants"
              PROVE  /\ ValidParticipant(body[k])
                     /\ \A id \in InParticipant :
                          d.obj.slots[R(k) - 1][id] =
                            IF Occurrences(body[k].body, {id}) = {}
                              THEN r.obj.slots[R(k) - 1][id]
                              ELSE Found(body[k].body, {id}).val
          <6>1. k \in 1..(m - 1)
            BY <5>3, <5>5
          <6> HIDE DEF g, d, p
          <6> QED BY <4>1, <5>1, <5>5, <6>1 DEF ReadSlots, R
        <5> HIDE DEF g, d, p
        <5> QED BY <5>1, <5>2, <5>4, <5>5 DEF ReadSlots, R
      <4> QED BY <4>5, <4>6
    <3> QED BY <2>1, <3>1, <3>2
  <2> QED BY <2>2, <2>3
<1>6. \A m \in 0..Len(body) : m \in S
  <2> HIDE DEF S
  <2> QED BY <1>1, <1>4, <1>5, LoopInduction
<1> QED BY <1>6 DEF q

\* Two different fields with one bit are two of the three messages.
LEMMA SharedBit ==
  ASSUME NEW struct \in Structs, NEW a \in Single(struct), NEW b \in Single(struct),
         Bit(a) = Bit(b)
  PROVE  a = b \/ (struct = "root" /\ a \in Kinds /\ b \in Kinds)
<1>1. \A s \in Structs : "tx_message" \notin Single(s) /\ (s # "root" => Kinds \cap Single(s) = {})
  BY StructNames, SingleNames DEF Kinds
<1> QED BY <1>1 DEF Bit

\* What is to be accepted as the body of a struct
GoodBody(r, struct, body) ==
  /\ \A n \in DOMAIN body : body[n].id \in KnownIn(struct) /\ body[n].ok = "yes"
  /\ \A id \in Single(struct) : AtMostOnce(body, {id})
  /\ struct = "root" =>
       /\ AtMostOnce(body, Kinds) /\ r.obj.multisig = <<>>
       /\ Cardinality(Occurrences(body, {"multisig"})) <= MaxMultisig
  /\ struct = "update" =>
       /\ r.obj.participants = 0
       /\ Cardinality(Occurrences(body, {"participants"})) <= MaxParticipants
       /\ \A n \in Occurrences(body, {"participants"}) :
            /\ ValidParticipant(body[n])
            /\ r.obj.slots[Rank(body, "participants", n) - 1].seen = {}

LEMMA GoodIsRead ==
  ASSUME NEW r \in Readers, r.err = "ok", NEW struct \in Structs, NEW body \in Seq(Fields),
         r.obj.seen[struct] = {}, GoodBody(r, struct, body)
  PROVE  ReadStruct(r, struct, body).err = "ok"
<1> DEFINE q == Turns(r, struct, body)
<1>1. Len(body) \in Nat /\ DOMAIN body = 1..Len(body)
  OBVIOUS
<1>2. /\ q[0] = r
      /\ \A k \in 1..Len(body) : q[k] = ReadField(q[k - 1], struct, body[k])
  BY StructLoop
<1> DEFINE S == {m \in 0..Len(body) :
                   /\ q[m] \in Readers /\ q[m].err = "ok"
                   /\ \A bit \in q[m].obj.seen[struct] :
                        \E k \in 1..m : body[k].id \in Single(struct) /\ Bit(body[k].id) = bit}
<1>3. 0 \in S
  <2> HIDE DEF q
  <2> QED BY <1>1, <1>2
<1>4. ASSUME NEW m \in 1..Len(body), m - 1 \in S PROVE m \in S
  <2> DEFINE p == q[m - 1]
             g == body[m]
             d == q[m]
  <2>1. g \in Fields /\ p \in Readers /\ d = ReadField(p, struct, g) /\ m \in 0..Len(body)
        /\ m - 1 \in 0..Len(body) /\ p.err = "ok"
    <3> HIDE DEF q
    <3> QED BY <1>2, <1>4
  <2>2. g.id \in KnownIn(struct) /\ g.ok = "yes"
    BY <1>1 DEF GoodBody
  <2>3. ASSUME g.id \in Single(struct), Bit(g.id) \in p.obj.seen[struct] PROVE FALSE
    <3>1. PICK k \in 1..(m - 1) : body[k].id \in Single(struct) /\ Bit(body[k].id) = Bit(g.id)
      <4> HIDE DEF q
      <4> QED BY <1>4, <2>3
    <3>2. k \in 1..Len(body) /\ k # m
      BY <1>1
    <3>3. body[k].id = g.id \/ (struct = "root" /\ body[k].id \in Kinds /\ g.id \in Kinds)
      BY <2>3, <3>1, SharedBit
    <3>4. CASE body[k].id = g.id
      BY <1>1, <2>3, <3>2, <3>4 DEF GoodBody, AtMostOnce, Occurrences
    <3>5. CASE struct = "root" /\ body[k].id \in Kinds /\ g.id \in Kinds
      BY <1>1, <3>2, <3>5 DEF GoodBody, AtMostOnce, Occurrences
    <3> QED BY <3>3, <3>4, <3>5
  <2>4. ASSUME g.id = "multisig" PROVE Len(p.obj.multisig) < MaxMultisig
    <3>1. struct = "root"
      BY <2>2, <2>4, KnownNames
    <3>2. Len(p.obj.multisig) = Rank(body, "multisig", m - 1)
      BY <2>1, <3>1, CountersRead DEF GoodBody
    <3>3. /\ Rank(body, "multisig", m) \in 1..Rank(body, "multisig", Len(body))
          /\ m - 1 \in Nat /\ Len(body) \in 0..Len(body)
      BY <1>1, <2>4, RankOrder
    <3>4. /\ Rank(body, "multisig", m) = Rank(body, "multisig", m - 1) + 1
          /\ Rank(body, "multisig", m - 1) \in Nat /\ Rank(body, "multisig", Len(body)) \in Nat
          /\ Rank(body, "multisig", Len(body)) = Cardinality(Occurrences(body, {"multisig"}))
      BY <1>1, <2>4, <3>3, RankStep
    <3>5. Cardinality(Occurrences(body, {"multisig"})) <= MaxMultisig
      BY <3>1 DEF GoodBody
    <3> QED BY <3>2, <3>3, <3>4, <3>5, Limits
  <2>5. ASSUME g.id = "participants"
        PROVE  /\ p.obj.participants < MaxParticipants /\ ValidParticipant(g)
               /\ p.obj.slots[p.obj.participants].seen = {}
    <3>1. struct = "update"
      BY <2>2, <2>5, KnownNames
    <3>2. ReadSlots(r.obj.slots, body, m - 1, p.obj)
      BY <2>1, <3>1, ParticipantsRead DEF GoodBody
    <3>3. /\ Rank(body, "participants", m) \in 1..Rank(body, "participants", Len(body))
          /\ m - 1 \in Nat /\ Len(body) \in 0..Len(body)
      BY <1>1, <2>5, RankOrder
    <3>4. /\ Rank(body, "participants", m) = Rank(body, "participants", m - 1) + 1
          /\ Rank(body, "participants", m - 1) \in Nat
          /\ Rank(body, "participants", Len(body)) \in Nat
          /\ Rank(body, "participants", Len(body)) = Cardinality(Occurrences(body, {"participants"}))
      BY <1>1, <2>5, <3>3, RankStep
    <3>5. /\ Cardinality(Occurrences(body, {"participants"})) <= MaxParticipants
          /\ m \in Occurrences(body, {"participants"})
      BY <1>1, <2>5, <3>1 DEF GoodBody, Occurrences
    <3>6. /\ ValidParticipant(g)
          /\ r.obj.slots[Rank(body, "participants", m) - 1].seen = {}
      BY <3>1, <3>5 DEF GoodBody
    <3>7. /\ p.obj.participants = Rank(body, "participants", m - 1)
          /\ \A s \in Slots : s >= Rank(body, "participants", m - 1) =>
               p.obj.slots[s] = r.obj.slots[s]
      BY <3>2 DEF ReadSlots
    <3>8. /\ p.obj.participants < MaxParticipants
          /\ p.obj.participants = Rank(body, "participants", m) - 1
          /\ p.obj.participants \in Slots
      <4> DEFINE before == p.obj.participants
                 upto == Rank(body, "participants", m)
                 all == Rank(body, "participants", Len(body))
      <4>1. before \in Nat /\ upto = before + 1 /\ all \in Nat /\ upto \in 1..all
        BY <3>3, <3>4, <3>7
      <4>2. all <= MaxParticipants /\ MaxParticipants \in Nat
        BY <3>4, <3>5, Limits
      <4> HIDE DEF before, upto, all
      <4>3. before < MaxParticipants /\ before = upto - 1 /\ before \in Slots
        BY <4>1, <4>2 DEF Slots
      <4> QED BY <4>3 DEF before, upto
    <3>9. p.obj.slots[p.obj.participants] = r.obj.slots[p.obj.participants]
      BY <3>4, <3>7, <3>8
    <3> QED BY <3>6, <3>8, <3>9
  <2>6. Takes(p, struct, g)
    BY <2>2, <2>3, <2>4, <2>5 DEF Takes
  <2>7. d \in Readers /\ d.err = "ok" /\ Taken(p, struct, g, d)
    <3> HIDE DEF p, g, d
    <3> QED BY <2>1, <2>5, <2>6, Turn
  <2>8. ASSUME NEW bit \in d.obj.seen[struct]
        PROVE  \E k \in 1..m : body[k].id \in Single(struct) /\ Bit(body[k].id) = bit
    <3>1. bit \in p.obj.seen[struct] \/ (g.id \in Single(struct) /\ bit = Bit(g.id))
      BY <2>7, <2>8 DEF Taken
    <3>2. ASSUME bit \in p.obj.seen[struct]
          PROVE  \E k \in 1..m : body[k].id \in Single(struct) /\ Bit(body[k].id) = bit
      <4>1. PICK k \in 1..(m - 1) : body[k].id \in Single(struct) /\ Bit(body[k].id) = bit
        <5> HIDE DEF q
        <5> QED BY <1>4, <3>2
      <4>2. k \in 1..m
        OBVIOUS
      <4> QED BY <4>1, <4>2
    <3>3. m \in 1..m
      OBVIOUS
    <3> QED BY <3>1, <3>2, <3>3
  <2> HIDE DEF q
  <2> QED BY <2>1, <2>7, <2>8
<1>5. \A m \in 0..Len(body) : m \in S
  <2> HIDE DEF S
  <2> QED BY <1>1, <1>3, <1>4, LoopInduction
<1> QED BY <1>1, <1>5 DEF ReadStruct

-------------------------------------------------------------------------------
(* The whole message *)

\* A field that is found is one of the body.
LEMMA FoundType ==
  ASSUME NEW body \in Seq(Fields), NEW ids
  PROVE  /\ Found(body, ids).body \in Seq(Fields) /\ Found(body, ids).val \in Nat
         /\ Occurrences(body, ids) = {} => Found(body, ids) = NoField
         /\ Occurrences(body, ids) # {} => Found(body, ids) \in Fields
<1>1. CASE Occurrences(body, ids) = {}
  BY <1>1 DEF Found, NoField
<1>2. CASE Occurrences(body, ids) # {}
  <2>1. PICK n \in Occurrences(body, ids) : Found(body, ids) = body[n]
    BY <1>2 DEF Found
  <2>2. body[n] \in Fields
    BY DEF Occurrences
  <2> QED BY <1>2, <2>1, <2>2, FieldType
<1> QED BY <1>1, <1>2

LEMMA BodiesAre ==
  ASSUME NEW m \in Messages
  PROVE  /\ m.root \in Seq(Fields)
         /\ Bodies(m)["root"] = m.root
         /\ \A id \in {"fees", "send", "vote", "update"} :
              Bodies(m)[id] = Found(Bodies(m)["root"], {id}).body
         /\ Bodies(m)["coin"] = Found(Bodies(m)["fees"], {"coin"}).body
         /\ \A id \in {"metadata", "amount"} :
              Bodies(m)[id] = Found(Found(m.root, Kinds).body, {id}).body
         /\ \A s \in Structs : Bodies(m)[s] \in Seq(Fields)
<1>1. m.root \in Seq(Fields)
  BY TxParserAssumption
<1>2. /\ Bodies(m)["root"] = m.root
      /\ Bodies(m)["fees"] = Found(m.root, {"fees"}).body
      /\ Bodies(m)["coin"] = Found(Found(m.root, {"fees"}).body, {"coin"}).body
      /\ Bodies(m)["send"] = Found(m.root, {"send"}).body
      /\ Bodies(m)["vote"] = Found(m.root, {"vote"}).body
      /\ Bodies(m)["update"] = Found(m.root, {"update"}).body
      /\ Bodies(m)["metadata"] = Found(Found(m.root, Kinds).body, {"metadata"}).body
      /\ Bodies(m)["amount"] = Found(Found(m.root, Kinds).body, {"amount"}).body
  BY DEF Bodies
<1>3. \A ids : Found(m.root, ids).body \in Seq(Fields)
  BY <1>1, FoundType
<1>4. \A id : Found(Found(m.root, {"fees"}).body, {id}).body \in Seq(Fields)
  BY <1>3, FoundType
<1>5. \A id : Found(Found(m.root, Kinds).body, {id}).body \in Seq(Fields)
  BY <1>3, FoundType
<1> QED BY <1>1, <1>2, <1>3, <1>4, <1>5, StructNames

\* What the object is when the reading of a message begins
Cleared(o) ==
  /\ o \in Objs
  /\ \A s \in Structs : o.seen[s] = {}
  /\ o.multisig = <<>> /\ o.participants = 0
  /\ \A s \in Structs : \A id \in Single(s) :
       <<s, id>> \notin Uncleared => o.fields[s][id] = NoField
  /\ \A s \in Slots : /\ <<s, "seen">> \in Overlaid => o.slots[s].seen = {}
                      /\ <<s, "signature">> \in Overlaid => o.slots[s].signature = 0
                      /\ <<s, "weight">> \in Overlaid => o.slots[s].weight = 0

LEMMA InitClears ==
  ASSUME NEW o \in Objs
  PROVE  Cleared(TxInit(o))
<1> DEFINE d == TxInit(o)
<1>1. /\ d.seen = [s \in Structs |-> {}]
      /\ d.fields = [s \in Structs |-> [id \in Single(s) |->
                       IF <<s, id>> \in Uncleared THEN o.fields[s][id] ELSE NoField]]
      /\ d.multisig = <<>> /\ d.participants = 0
      /\ d.slots = [s \in Slots |-> SlotLeftOver(o, s)]
      /\ d = [seen |-> d.seen, fields |-> d.fields, multisig |-> d.multisig,
              participants |-> d.participants, slots |-> d.slots]
  <2> DEFINE left == [s \in Structs |-> [id \in Single(s) |->
                        IF <<s, id>> \in Uncleared THEN o.fields[s][id] ELSE NoField]]
             old == [s \in Slots |-> SlotLeftOver(o, s)]
             none == [s \in Structs |-> {}]
  <2>1. d = [Empty EXCEPT !.fields = left, !.slots = old]
    BY DEF TxInit, LeftOver
  <2>2. Empty.seen = none /\ Empty.multisig = <<>> /\ Empty.participants = 0
        /\ Empty = [seen |-> none, fields |-> Empty.fields, multisig |-> <<>>,
                    participants |-> 0, slots |-> Empty.slots]
    BY DEF Empty
  <2> HIDE DEF d, left, old, none
  <2>3. d = [seen |-> none, fields |-> left, multisig |-> <<>>, participants |-> 0, slots |-> old]
    BY <2>1, <2>2
  <2>4. /\ d.seen = none /\ d.fields = left /\ d.multisig = <<>> /\ d.participants = 0
        /\ d.slots = old
    BY <2>3
  <2> QED BY <2>3, <2>4 DEF left, old, none
<1> HIDE DEF d
<1>2. o.fields \in FieldTypes /\ o.slots \in [Slots -> SlotTypes]
  BY DEF Objs
<1>3. ASSUME NEW s \in Slots
      PROVE  /\ SlotLeftOver(o, s) \in SlotTypes
             /\ <<s, "seen">> \in Overlaid => SlotLeftOver(o, s).seen = {}
             /\ <<s, "signature">> \in Overlaid => SlotLeftOver(o, s).signature = 0
             /\ <<s, "weight">> \in Overlaid => SlotLeftOver(o, s).weight = 0
  <2> DEFINE new == SlotLeftOver(o, s)
             old == o.slots[s]
  <2>1. DOMAIN EmptySlot = {"seen", "signature", "weight"}
        /\ EmptySlot["seen"] = {} /\ EmptySlot["signature"] = 0 /\ EmptySlot["weight"] = 0
    BY DEF EmptySlot
  <2>2. new = [part \in {"seen", "signature", "weight"} |->
                 IF <<s, part>> \in Overlaid THEN EmptySlot[part] ELSE old[part]]
    BY <2>1 DEF SlotLeftOver
  <2>3. old \in SlotTypes /\ 0 \in Lengths
    BY <1>2 DEF Lengths
  <2>4. /\ old.seen \in SUBSET InParticipant /\ old.signature \in Lengths /\ old.weight \in Nat
    BY <2>3 DEF SlotTypes
  <2> HIDE DEF old, new
  <2>5. /\ new["seen"] \in SUBSET InParticipant /\ new["signature"] \in Lengths
        /\ new["weight"] \in Nat
    BY <2>1, <2>2, <2>3, <2>4
  <2>6. new = [seen |-> new["seen"], signature |-> new["signature"], weight |-> new["weight"]]
    BY <2>2
  <2>7. new \in SlotTypes
    BY <2>5, <2>6 DEF SlotTypes
  <2> QED BY <2>1, <2>2, <2>7 DEF new
<1>4. d.slots \in [Slots -> SlotTypes]
  BY <1>1, <1>3
<1>5. ASSUME NEW s \in Structs
      PROVE  d.fields[s] \in [Single(s) -> Fields \cup {NoField}]
  BY <1>1, <1>2 DEF FieldTypes
<1>6. d.fields \in FieldTypes
  BY <1>1, <1>5 DEF FieldTypes
<1>7. d \in Objs
  <2>1. d.seen \in [Structs -> SUBSET Bits]
    BY <1>1
  <2>2. d.multisig \in {s \in Seq(Nat) : Len(s) <= MaxMultisig}
    BY <1>1, TxParserAssumption
  <2>3. d.participants \in 0..MaxParticipants
    BY <1>1, TxParserAssumption
  <2> QED BY <1>1, <1>4, <1>6, <2>1, <2>2, <2>3 DEF Objs
<1> QED BY <1>1, <1>3, <1>7 DEF Cleared, d

-------------------------------------------------------------------------------
(* Struct by struct: what has been read when some of the structs are done *)

\* A message that nothing left over in the object o is a reason to refuse
Acceptable(m, o) ==
  /\ WellFormed(m)
  /\ \A n \in Participants(m) : o.slots[SlotOf(m, n)].seen = {}

Counted(m, o) ==
  /\ Len(o.multisig) = Cardinality(Occurrences(m.root, {"multisig"}))
  /\ \A n \in Occurrences(m.root, {"multisig"}) :
       o.multisig[Rank(m.root, "multisig", n)] = m.root[n].val

\* The reader d has read the structs that are done, of a message that found
\* the object o.
Stage(m, o, done, d) ==
  /\ d \in Readers
  /\ Acceptable(m, o) => d.err = "ok"
  /\ d.err = "ok" =>
       /\ AtMostOnce(m.root, Kinds) /\ Counted(m, d.obj)
       /\ \A s \in done :
            /\ ValidStruct(s, Bodies(m)[s])
            /\ \A id \in Single(s) :
                 d.obj.fields[s][id] = IF Occurrences(Bodies(m)[s], {id}) = {} THEN o.fields[s][id]
                                       ELSE Found(Bodies(m)[s], {id})
       /\ \A s \in Structs \ done : d.obj.seen[s] = {} /\ d.obj.fields[s] = o.fields[s]
       /\ IF "update" \in done
            THEN ReadSlots(o.slots, Bodies(m)["update"], Len(Bodies(m)["update"]), d.obj)
            ELSE d.obj.participants = 0 /\ d.obj.slots = o.slots

\* An error is the end of the reading.
LEMMA FailedStage ==
  ASSUME NEW m, NEW o, NEW done, NEW r, Stage(m, o, done, r), r.err # "ok", NEW more
  PROVE  Stage(m, o, more, r)
BY DEF Stage

\* A field that is there once, or that is cleared
LEMMA StageField ==
  ASSUME NEW m \in Messages, NEW o, Cleared(o), NEW done, NEW r, Stage(m, o, done, r),
         r.err = "ok", NEW s \in done, s \in Structs, NEW id \in Single(s),
         <<s, id>> \notin Uncleared
  PROVE  r.obj.fields[s][id] = Found(Bodies(m)[s], {id})
<1>1. Bodies(m)[s] \in Seq(Fields)
  BY BodiesAre
<1>2. Occurrences(Bodies(m)[s], {id}) = {} => Found(Bodies(m)[s], {id}) = NoField
  BY <1>1, FoundType
<1> QED BY <1>2 DEF Stage, Cleared

LEMMA RootStage ==
  ASSUME NEW m \in Messages, NEW o, Cleared(o)
  PROVE  Stage(m, o, {"root"}, ReadStruct([obj |-> o, err |-> "ok"], "root", m.root))
<1> DEFINE r == [obj |-> o, err |-> "ok"]
           d == ReadStruct(r, "root", m.root)
<1>1. r \in Readers /\ r.err = "ok" /\ r.obj = o
  BY DEF Readers, Errors, Cleared
<1>2. /\ m.root \in Seq(Fields) /\ Bodies(m)["root"] = m.root /\ Len(m.root) \in Nat
      /\ "root" \in Structs
  BY BodiesAre, StructNames
<1> HIDE DEF r
<1>3. StructResult(r, "root", m.root, d)
  BY <1>1, <1>2, StructRead
<1>4. ASSUME Acceptable(m, o) PROVE d.err = "ok"
  <2>1. GoodBody(r, "root", m.root)
    <3>1. ValidStruct("root", m.root)
      BY <1>2, <1>4 DEF Acceptable, WellFormed
    <3> QED BY <1>1, <1>4, <3>1 DEF Acceptable, WellFormed, ValidStruct, GoodBody, Cleared
  <2>2. r.obj.seen["root"] = {}
    BY <1>1, <1>2 DEF Cleared
  <2> QED BY <1>1, <1>2, <2>1, <2>2, GoodIsRead
<1>5. ASSUME d.err = "ok" PROVE Counted(m, d.obj)
  <2>1. /\ d = Turns(r, "root", m.root)[Len(m.root)] /\ Len(m.root) \in 0..Len(m.root)
        /\ r.obj.multisig = <<>>
    BY <1>1, <1>2 DEF ReadStruct, Cleared
  <2>2. /\ Len(d.obj.multisig) = Rank(m.root, "multisig", Len(m.root))
        /\ \A k \in 1..Len(m.root) : m.root[k].id = "multisig" =>
             d.obj.multisig[Rank(m.root, "multisig", k)] = m.root[k].val
    BY <1>1, <1>2, <1>5, <2>1, CountersRead
  <2>3. Rank(m.root, "multisig", Len(m.root)) = Cardinality(Occurrences(m.root, {"multisig"}))
    BY <1>2, RankStep
  <2> QED BY <1>2, <2>2, <2>3 DEF Counted, Occurrences
<1>6. ASSUME d.err = "ok" PROVE ValidStruct("root", m.root)
  BY <1>3, <1>6 DEF StructResult, ValidStruct
<1> HIDE DEF d
<1>7. ASSUME d.err = "ok"
      PROVE  /\ \A s \in Structs \ {"root"} : d.obj.seen[s] = {} /\ d.obj.fields[s] = o.fields[s]
             /\ d.obj.participants = 0 /\ d.obj.slots = o.slots
  BY <1>1, <1>3, <1>7 DEF StructResult, Cleared
<1>8. ASSUME d.err = "ok"
      PROVE  \A id \in Single("root") :
               d.obj.fields["root"][id] = IF Occurrences(m.root, {id}) = {} THEN o.fields["root"][id]
                                          ELSE Found(m.root, {id})
  BY <1>1, <1>3, <1>8 DEF StructResult
<1>9. d \in Readers /\ (d.err = "ok" => AtMostOnce(m.root, Kinds))
  BY <1>3 DEF StructResult
<1> QED BY <1>2, <1>4, <1>5, <1>6, <1>7, <1>8, <1>9 DEF Stage, d, r

\* Reading the fields of a struct, and checking the ticker of an amount
ReadBody(r, s, body) ==
  LET d == ReadStruct(r, s, body)
  IN  IF s \in {"coin", "amount"} /\ body # <<>> THEN ValidateCoin(d, s) ELSE d

LEMMA BodyStage ==
  ASSUME NEW m \in Messages, NEW o, Cleared(o), NEW done \in SUBSET Structs, NEW r,
         Stage(m, o, done, r), r.err = "ok", NEW s \in Structs \ done, s # "root",
         NEW body, body = Bodies(m)[s]
  PROVE  Stage(m, o, done \cup {s}, ReadBody(r, s, body))
<1> DEFINE d == ReadStruct(r, s, body)
           e == ReadBody(r, s, body)
<1>1. /\ r \in Readers /\ body \in Seq(Fields) /\ Len(body) \in Nat
      /\ r.obj.seen[s] = {} /\ r.obj.fields[s] = o.fields[s]
      /\ s = "update" => r.obj.participants = 0 /\ r.obj.slots = o.slots
      /\ "update" \notin done => r.obj.participants = 0 /\ r.obj.slots = o.slots
  BY BodiesAre DEF Stage
<1>2. StructResult(r, s, body, d)
  BY <1>1, StructRead
<1>3. ASSUME Acceptable(m, o) PROVE d.err = "ok" /\ ValidStruct(s, body)
  <2>1. ValidStruct(s, body)
    BY <1>3 DEF Acceptable, WellFormed
  <2>2. s = "update" => /\ Participants(m) = Occurrences(body, {"participants"})
                        /\ Bodies(m).update = body
                        /\ \A n : SlotOf(m, n) = Rank(body, "participants", n) - 1
    BY DEF Participants, SlotOf
  <2>3. GoodBody(r, s, body)
    BY <1>1, <1>3, <2>1, <2>2 DEF Acceptable, WellFormed, ValidStruct, GoodBody
  <2> QED BY <1>1, <2>1, <2>3, GoodIsRead
<1>4. ASSUME d.err = "ok", s = "update"
      PROVE  ReadSlots(o.slots, Bodies(m)["update"], Len(Bodies(m)["update"]), d.obj)
  <2>1. d = Turns(r, s, body)[Len(body)] /\ Len(body) \in 0..Len(body)
    BY <1>1 DEF ReadStruct
  <2>2. r.obj.participants = 0
    BY <1>1, <1>4
  <2>3. ReadSlots(r.obj.slots, body, Len(body), d.obj)
    BY <1>1, <1>4, <2>1, <2>2, ParticipantsRead
  <2> QED BY <1>1, <1>4, <2>3
<1>5. ASSUME d.err = "ok", s \in {"coin", "amount"}
      PROVE  d.obj.fields[s]["ticker"] = Found(body, {"ticker"})
  <2>1. "ticker" \in Single(s) /\ <<s, "ticker">> \notin Uncleared
    BY <1>5, SingleNames DEF Uncleared
  <2>2. o.fields[s]["ticker"] = NoField
    BY <2>1 DEF Cleared
  <2>3. Occurrences(body, {"ticker"}) = {} => Found(body, {"ticker"}) = NoField
    BY <1>1, FoundType
  <2> QED BY <1>1, <1>2, <1>5, <2>1, <2>2, <2>3 DEF StructResult
<1>6. /\ e = d \/ e = Fail(d, "value_out_of_range") \/ e = Fail(d, "unexpected_characters")
      /\ e = d => (d.err = "ok" => ValidStruct(s, body))
      /\ d.err = "ok" /\ ValidStruct(s, body) => e = d
  <2>1. e = IF d.err = "ok" /\ s \in {"coin", "amount"} /\ body # <<>>
              THEN IF ~ValidTicker(d.obj, s) THEN Fail(d, "value_out_of_range")
                   ELSE IF ~UppercaseTicker(d.obj, s) THEN Fail(d, "unexpected_characters") ELSE d
              ELSE d
    BY DEF ReadBody, ValidateCoin
  <2>2. d \in Readers
    BY <1>2 DEF StructResult
  <2> HIDE DEF d, e
  <2>3. Fail(d, "value_out_of_range").err # "ok" /\ Fail(d, "unexpected_characters").err # "ok"
    BY <2>2, FailType DEF Errors
  <2>4. ASSUME d.err = "ok", s \in {"coin", "amount"}
        PROVE  /\ ValidTicker(d.obj, s) <=> Found(body, {"ticker"}).val \in 3..4
               /\ UppercaseTicker(d.obj, s) <=> Found(body, {"ticker"}).chars = "upper"
    BY <1>5, <2>4 DEF ValidTicker, UppercaseTicker
  <2>5. ASSUME d.err = "ok"
        PROVE  /\ \A n \in DOMAIN body : body[n].id \in KnownIn(s) /\ body[n].ok = "yes"
               /\ \A id \in Single(s) : AtMostOnce(body, {id})
    BY <1>2, <2>5 DEF StructResult
  <2> QED BY <2>1, <2>3, <2>4, <2>5 DEF ValidStruct
<1> HIDE DEF d, e
<1>7. CASE e = Fail(d, "value_out_of_range") \/ e = Fail(d, "unexpected_characters")
  <2>1. e \in Readers /\ e.err # "ok"
    BY <1>2, <1>7, FailType DEF Errors, StructResult
  <2>2. ~Acceptable(m, o)
    BY <1>3, <1>6, <2>1
  <2> QED BY <2>1, <2>2 DEF Stage, e
<1>8. CASE e = d
  <2>1. ASSUME d.err = "ok"
        PROVE  /\ AtMostOnce(m.root, Kinds) /\ Counted(m, d.obj)
               /\ \A t \in done \cup {s} : ValidStruct(t, Bodies(m)[t])
    BY <1>2, <1>6, <1>8, <2>1 DEF Stage, StructResult, Counted
  <2>2. ASSUME d.err = "ok", NEW t \in done \cup {s}, NEW id \in Single(t)
        PROVE  d.obj.fields[t][id] = IF Occurrences(Bodies(m)[t], {id}) = {} THEN o.fields[t][id]
                                     ELSE Found(Bodies(m)[t], {id})
    <3>1. CASE t = s
      BY <1>1, <1>2, <2>2, <3>1 DEF StructResult
    <3>2. CASE t # s
      <4>1. t \in done /\ t \in Structs \ {s}
        BY <2>2, <3>2
      <4>2. d.obj.fields[t] = r.obj.fields[t]
        BY <1>2, <2>2, <4>1 DEF StructResult
      <4> QED BY <2>2, <4>1, <4>2 DEF Stage
    <3> QED BY <3>1, <3>2
  <2>3. ASSUME d.err = "ok", NEW t \in Structs \ (done \cup {s})
        PROVE  d.obj.seen[t] = {} /\ d.obj.fields[t] = o.fields[t]
    BY <1>2, <2>3 DEF Stage, StructResult
  <2>4. ASSUME d.err = "ok"
        PROVE  IF "update" \in done \cup {s}
                 THEN ReadSlots(o.slots, Bodies(m)["update"], Len(Bodies(m)["update"]), d.obj)
                 ELSE d.obj.participants = 0 /\ d.obj.slots = o.slots
    <3>1. CASE s = "update"
      BY <1>4, <2>4, <3>1
    <3>2. CASE s # "update"
      <4>1. d.obj.participants = r.obj.participants /\ d.obj.slots = r.obj.slots
        BY <1>2, <2>4, <3>2 DEF StructResult
      <4>2. CASE "update" \in done
        <5>1. ReadSlots(o.slots, Bodies(m)["update"], Len(Bodies(m)["update"]), r.obj)
          BY <4>2 DEF Stage
        <5>2. ReadSlots(o.slots, Bodies(m)["update"], Len(Bodies(m)["update"]), d.obj)
          BY <4>1, <5>1 DEF ReadSlots
        <5> QED BY <4>2, <5>2
      <4>3. CASE "update" \notin done
        BY <1>1, <3>2, <4>1, <4>3
      <4> QED BY <4>2, <4>3
    <3> QED BY <3>1, <3>2
  <2>5. d \in Readers /\ (Acceptable(m, o) => d.err = "ok")
    BY <1>2, <1>3 DEF StructResult
  <2>6. Stage(m, o, done \cup {s}, d)
    BY <2>1, <2>2, <2>3, <2>4, <2>5 DEF Stage
  <2> QED BY <1>8, <2>6 DEF e
<1> QED BY <1>6, <1>7, <1>8

\* A struct that the message has no fields for is done.
LEMMA EmptyStage ==
  ASSUME NEW m \in Messages, NEW o, NEW done \in SUBSET Structs, NEW r, Stage(m, o, done, r),
         NEW s \in Structs \ done, r.err = "ok" => Bodies(m)[s] = <<>>
  PROVE  Stage(m, o, done \cup {s}, r)
<1> SUFFICES ASSUME r.err = "ok" PROVE Stage(m, o, done \cup {s}, r)
  BY FailedStage
<1>1. Bodies(m)[s] = <<>>
  OBVIOUS
<1>2. \A ids : Occurrences(<<>>, ids) = {}
  BY DEF Occurrences
<1>3. ValidStruct(s, <<>>)
  BY <1>2 DEF ValidStruct, AtMostOnce
<1>4. ASSUME s = "update" PROVE ReadSlots(o.slots, <<>>, Len(<<>>), r.obj)
  <2>1. Rank(<<>>, "participants", Len(<<>>)) = 0
    BY <1>2, FS_EmptySet DEF Rank
  <2>2. r.obj.participants = 0 /\ r.obj.slots = o.slots
    BY <1>4 DEF Stage
  <2> QED BY <2>1, <2>2 DEF ReadSlots
<1>5. \A id \in Single(s) : r.obj.fields[s][id] = o.fields[s][id]
  BY DEF Stage
<1> QED BY <1>1, <1>2, <1>3, <1>4, <1>5 DEF Stage

\* The fields of a message in a field of a struct that is done
LEMMA NestedStage ==
  ASSUME NEW m \in Messages, NEW o, Cleared(o), NEW done \in SUBSET Structs, NEW r,
         Stage(m, o, done, r), NEW p \in done, NEW id \in Single(p), <<p, id>> \notin Uncleared,
         NEW s \in Structs \ done, s # "root", s \notin {"coin", "amount"},
         r.err = "ok" => Bodies(m)[s] = Found(Bodies(m)[p], {id}).body
  PROVE  Stage(m, o, done \cup {s}, ReadNested(r, p, id, s))
<1>1. CASE r.err # "ok"
  <2>1. ReadNested(r, p, id, s) = r
    BY <1>1 DEF ReadNested
  <2> QED BY <1>1, <2>1, FailedStage
<1>2. CASE r.err = "ok"
  <2>1. r.obj.fields[p][id] = Found(Bodies(m)[p], {id})
    BY <1>2, StageField
  <2>2. ReadNested(r, p, id, s) = ReadStruct(r, s, Bodies(m)[s])
    BY <1>2, <2>1 DEF ReadNested, BodyOf
  <2>3. ReadBody(r, s, Bodies(m)[s]) = ReadStruct(r, s, Bodies(m)[s])
    BY DEF ReadBody
  <2>4. Stage(m, o, done \cup {s}, ReadBody(r, s, Bodies(m)[s]))
    BY <1>2, BodyStage
  <2> QED BY <2>2, <2>3, <2>4
<1> QED BY <1>1, <1>2

LEMMA CoinStage ==
  ASSUME NEW m \in Messages, NEW o, Cleared(o), NEW done \in SUBSET Structs, NEW r,
         Stage(m, o, done, r), NEW p \in done, NEW id \in Single(p), <<p, id>> \notin Uncleared,
         NEW s \in {"coin", "amount"} \ done,
         r.err = "ok" => Bodies(m)[s] = Found(Bodies(m)[p], {id}).body
  PROVE  Stage(m, o, done \cup {s}, ReadCoin(r, p, id, s))
<1>1. CASE r.err # "ok"
  <2>1. ReadCoin(r, p, id, s) = r
    BY <1>1 DEF ReadCoin, ReadNested, ValidateCoin
  <2> QED BY <1>1, <2>1, FailedStage
<1>2. CASE r.err = "ok"
  <2>1. r.obj.fields[p][id] = Found(Bodies(m)[p], {id})
    BY <1>2, StageField
  <2>2. BodyOf(r.obj, p, id) = Bodies(m)[s]
    BY <1>2, <2>1 DEF BodyOf
  <2>3. ReadCoin(r, p, id, s) = ReadBody(r, s, Bodies(m)[s])
    BY <1>2, <2>2 DEF ReadCoin, ReadNested, ReadBody
  <2>4. s \in Structs \ done /\ s # "root"
    BY StructNames
  <2>5. Stage(m, o, done \cup {s}, ReadBody(r, s, Bodies(m)[s]))
    BY <1>2, <2>4, BodyStage
  <2> QED BY <2>3, <2>5
<1> QED BY <1>1, <1>2

LEMMA FeesStage ==
  ASSUME NEW m \in Messages, NEW o, Cleared(o), NEW r, Stage(m, o, {"root"}, r)
  PROVE  Stage(m, o, {"root", "fees", "coin"}, ReadFees(r))
<1> DEFINE d == ReadNested(r, "root", "fees", "fees")
<1>1. /\ "fees" \in Single("root") /\ "coin" \in Single("fees")
      /\ <<"root", "fees">> \notin Uncleared /\ <<"fees", "coin">> \notin Uncleared
      /\ {"root"} \in SUBSET Structs /\ {"root", "fees"} \in SUBSET Structs
      /\ "fees" \in Structs \ {"root"} /\ "coin" \in {"coin", "amount"} \ {"root", "fees"}
      /\ {"root"} \cup {"fees"} = {"root", "fees"}
      /\ {"root", "fees"} \cup {"coin"} = {"root", "fees", "coin"}
  BY SingleNames, StructNames DEF Uncleared
<1>2. Bodies(m)["fees"] = Found(Bodies(m)["root"], {"fees"}).body
      /\ Bodies(m)["coin"] = Found(Bodies(m)["fees"], {"coin"}).body
  BY BodiesAre
<1>3. Stage(m, o, {"root", "fees"}, d)
  <2>1. Stage(m, o, {"root"} \cup {"fees"}, d)
    BY <1>1, <1>2, NestedStage
  <2> QED BY <1>1, <2>1
<1> HIDE DEF d
<1>4. Stage(m, o, {"root", "fees"} \cup {"coin"}, ReadCoin(d, "fees", "coin", "coin"))
  BY <1>1, <1>2, <1>3, CoinStage
<1> QED BY <1>1, <1>4 DEF ReadFees, d

\* The kind that is present is that of the one message that there is.
LEMMA KindRead ==
  ASSUME NEW m \in Messages, NEW o, Cleared(o), NEW done, "root" \in done, NEW r,
         Stage(m, o, done, r), r.err = "ok"
  PROVE  /\ KindsIn(r.obj) = {} => Occurrences(m.root, Kinds) = {}
         /\ \A k \in Kinds : Present(r.obj, "root", k) =>
              /\ Occurrences(m.root, {k}) # {} /\ Occurrences(m.root, Kinds) # {}
              /\ Found(m.root, Kinds) = Found(m.root, {k})
              /\ \A j \in Kinds \ {k} : Bodies(m)[j] = <<>> /\ ~Present(r.obj, "root", j)
<1>1. /\ m.root \in Seq(Fields) /\ Bodies(m)["root"] = m.root
      /\ \A k \in Kinds : Bodies(m)[k] = Found(m.root, {k}).body
  BY BodiesAre DEF Kinds
<1>2. ASSUME NEW k \in Kinds PROVE r.obj.fields["root"][k] = Found(m.root, {k})
  <2>1. k \in Single("root") /\ "root" \in Structs /\ <<"root", k>> \notin Uncleared
    BY SingleNames, StructNames DEF Kinds, Uncleared
  <2>2. r.obj.fields["root"][k] = Found(Bodies(m)["root"], {k})
    BY <2>1, StageField
  <2> QED BY <1>1, <2>2
<1>3. ASSUME NEW k \in Kinds PROVE Present(r.obj, "root", k) <=> Occurrences(m.root, {k}) # {}
  <2>1. CASE Occurrences(m.root, {k}) = {}
    BY <1>1, <1>2, <2>1, FoundType DEF Present
  <2>2. ASSUME NEW n \in Occurrences(m.root, {k}) PROVE Present(r.obj, "root", k)
    <3>1. ValidStruct("root", m.root) /\ k \in Single("root")
      BY <1>1, SingleNames DEF Stage, Kinds
    <3>2. Found(m.root, {k}) = m.root[n] /\ m.root[n].ok = "yes"
      BY <3>1, FoundIs DEF ValidStruct, Occurrences
    <3>3. NoField.ok # "yes"
      BY DEF NoField
    <3> QED BY <1>2, <3>2, <3>3 DEF Present
  <2> QED BY <2>1, <2>2
<1>4. AtMostOnce(m.root, Kinds)
  BY DEF Stage
<1>5. KindsIn(r.obj) = {} => Occurrences(m.root, Kinds) = {}
  BY <1>3 DEF KindsIn, Occurrences
<1>6. ASSUME NEW k \in Kinds, Present(r.obj, "root", k)
      PROVE  /\ Occurrences(m.root, {k}) # {} /\ Occurrences(m.root, Kinds) # {}
             /\ Found(m.root, Kinds) = Found(m.root, {k})
             /\ \A j \in Kinds \ {k} : Bodies(m)[j] = <<>> /\ ~Present(r.obj, "root", j)
  <2>1. PICK n \in Occurrences(m.root, {k}) : TRUE
    BY <1>3, <1>6
  <2>2. n \in Occurrences(m.root, Kinds)
    BY DEF Occurrences
  <2>3. AtMostOnce(m.root, {k})
    BY <1>4 DEF AtMostOnce, Occurrences
  <2>4. Found(m.root, Kinds) = m.root[n] /\ Found(m.root, {k}) = m.root[n]
    BY <1>4, <2>2, <2>3, FoundIs
  <2>5. ASSUME NEW j \in Kinds \ {k} PROVE Bodies(m)[j] = <<>> /\ ~Present(r.obj, "root", j)
    <3>1. Occurrences(m.root, {j}) = {}
      BY <1>4, <2>2 DEF AtMostOnce, Occurrences
    <3>2. Found(m.root, {j}) = NoField
      BY <1>1, <3>1, FoundType
    <3> QED BY <1>1, <1>3, <3>1, <3>2 DEF NoField
  <2> QED BY <2>1, <2>2, <2>4, <2>5
<1> QED BY <1>5, <1>6

LEMMA MessageStage ==
  ASSUME NEW m \in Messages, NEW o, Cleared(o), NEW r, Stage(m, o, {"root", "fees", "coin"}, r)
  PROVE  /\ Stage(m, o, Structs, ReadMessage(r))
         /\ ReadMessage(r).err = "ok" => Occurrences(m.root, Kinds) # {}
<1>1. CASE r.err # "ok"
  <2>1. ReadMessage(r) = r
    BY <1>1 DEF ReadMessage
  <2> QED BY <1>1, <2>1, FailedStage
<1>2. CASE r.err = "ok" /\ KindsIn(r.obj) = {}
  <2>1. ReadMessage(r) = Fail(r, "no_data")
    BY <1>2 DEF ReadMessage
  <2>2. ReadMessage(r) \in Readers /\ ReadMessage(r).err # "ok"
    BY <2>1, FailType DEF Stage, Errors
  <2>3. Occurrences(m.root, Kinds) = {}
    BY <1>2, KindRead
  <2> QED BY <2>2, <2>3 DEF Stage, Acceptable, WellFormed
<1>3. CASE r.err = "ok" /\ KindsIn(r.obj) # {}
  <2> DEFINE kind == CHOOSE k \in Kinds : Present(r.obj, "root", k)
             a == ReadNested(r, "root", kind, kind)
             b == ReadNested(a, kind, "metadata", "metadata")
             d == ReadMessage(r)
             done == {"root", "fees", "coin"}
  <2>1. kind \in Kinds /\ Present(r.obj, "root", kind)
    BY <1>3 DEF KindsIn
  <2>2. d = IF kind = "send" THEN ReadCoin(b, "send", "amount", "amount") ELSE b
    BY <1>3 DEF ReadMessage
  <2> HIDE DEF kind, d
  <2>3. /\ Occurrences(m.root, Kinds) # {} /\ Found(m.root, Kinds) = Found(m.root, {kind})
        /\ \A j \in Kinds \ {kind} : Bodies(m)[j] = <<>>
    BY <1>3, <2>1, KindRead
  <2>4. /\ Bodies(m)["root"] = m.root /\ Bodies(m)[kind] = Found(m.root, {kind}).body
        /\ Bodies(m)[kind] \in Seq(Fields)
        /\ Bodies(m)["metadata"] = Found(Bodies(m)[kind], {"metadata"}).body
        /\ Bodies(m)["amount"] = Found(Bodies(m)[kind], {"amount"}).body
    <3>1. /\ Bodies(m)["root"] = m.root
          /\ \A id \in {"fees", "send", "vote", "update"} :
               Bodies(m)[id] = Found(Bodies(m)["root"], {id}).body
          /\ \A id \in {"metadata", "amount"} :
               Bodies(m)[id] = Found(Found(m.root, Kinds).body, {id}).body
          /\ \A s \in Structs : Bodies(m)[s] \in Seq(Fields)
      BY BodiesAre
    <3>2. kind \in {"fees", "send", "vote", "update"} /\ kind \in Structs
      BY <2>1, StructNames DEF Kinds
    <3>3. Bodies(m)[kind] = Found(m.root, {kind}).body
      BY <3>1, <3>2
    <3> QED BY <2>3, <3>1, <3>2, <3>3
  <2>5. /\ kind \in Single("root") /\ "metadata" \in Single(kind)
        /\ <<"root", kind>> \notin Uncleared /\ <<kind, "metadata">> \notin Uncleared
        /\ kind \in Structs \ done /\ kind \notin {"root", "coin", "amount"}
        /\ done \in SUBSET Structs /\ done \cup {kind} \in SUBSET Structs
        /\ "metadata" \in Structs \ (done \cup {kind})
    BY <2>1, SingleNames, StructNames DEF Kinds, Uncleared
  <2>6. Stage(m, o, done \cup {kind}, a)
    BY <2>4, <2>5, NestedStage
  <2> HIDE DEF a
  <2>7. Stage(m, o, done \cup {kind} \cup {"metadata"}, b)
    BY <2>4, <2>5, <2>6, NestedStage
  <2> HIDE DEF b
  <2> DEFINE most == done \cup {kind} \cup {"metadata"}
  <2>8. /\ most \in SUBSET Structs /\ kind \in most
        /\ "amount" \in {"coin", "amount"} \ most /\ "amount" \in Structs \ most
    BY <2>5, StructNames DEF Kinds
  <2>9. Stage(m, o, most \cup {"amount"}, d)
    <3> HIDE DEF most
    <3>1. CASE kind = "send"
      <4>1. "amount" \in Single(kind) /\ <<kind, "amount">> \notin Uncleared
        BY <3>1, SingleNames DEF Uncleared
      <4>2. Stage(m, o, most, b)
        BY <2>7 DEF most
      <4>3. Stage(m, o, most \cup {"amount"}, ReadCoin(b, kind, "amount", "amount"))
        BY <2>4, <2>8, <4>1, <4>2, CoinStage
      <4> QED BY <2>2, <3>1, <4>3
    <3>2. CASE kind # "send"
      <4>1. Stage(m, o, most, b) /\ d = b
        BY <2>2, <2>7, <3>2 DEF most
      <4>2. ASSUME b.err = "ok" PROVE Bodies(m)["amount"] = <<>>
        <5>1. ValidStruct(kind, Bodies(m)[kind])
          BY <2>8, <4>1, <4>2 DEF Stage
        <5>2. "amount" \notin KnownIn(kind)
          BY <2>1, <3>2 DEF Kinds, KnownIn, Known
        <5>3. Occurrences(Bodies(m)[kind], {"amount"}) = {}
          BY <5>1, <5>2 DEF ValidStruct, Occurrences
        <5>4. Found(Bodies(m)[kind], {"amount"}) = NoField
          BY <2>4, <5>3, FoundType
        <5> QED BY <2>4, <5>4 DEF NoField
      <4> QED BY <2>8, <4>1, <4>2, EmptyStage
    <3> QED BY <3>1, <3>2
  <2>10. PICK j, k : /\ Kinds = {kind, j, k} /\ j # k /\ j # kind /\ k # kind
                     /\ Bodies(m)[j] = <<>> /\ Bodies(m)[k] = <<>>
    <3>1. CASE kind = "send"
      BY <2>3, <3>1 DEF Kinds
    <3>2. CASE kind = "vote"
      BY <2>3, <3>2 DEF Kinds
    <3>3. CASE kind = "update"
      BY <2>3, <3>3 DEF Kinds
    <3> QED BY <2>1, <3>1, <3>2, <3>3 DEF Kinds
  <2>11. /\ most \cup {"amount"} \in SUBSET Structs /\ most \cup {"amount"} \cup {j} \in SUBSET Structs
         /\ j \in Structs \ (most \cup {"amount"}) /\ k \in Structs \ (most \cup {"amount"} \cup {j})
         /\ most \cup {"amount"} \cup {j} \cup {k} = Structs
    BY <2>1, <2>10, StructNames DEF Kinds
  <2> HIDE DEF most
  <2>12. Stage(m, o, most \cup {"amount"} \cup {j}, d)
    BY <2>9, <2>10, <2>11, EmptyStage
  <2>13. Stage(m, o, most \cup {"amount"} \cup {j} \cup {k}, d)
    BY <2>10, <2>11, <2>12, EmptyStage
  <2> QED BY <2>3, <2>11, <2>13 DEF d
<1> QED BY <1>1, <1>2, <1>3

-------------------------------------------------------------------------------
(* The memo, or what lies there *)

\* Each slot that was written has its participant.
LEMMA RankOnto ==
  ASSUME NEW body \in Seq(Fields), NEW id
  PROVE  \A n \in 0..Len(body) : \A s \in Nat :
           s < Rank(body, id, n) => \E k \in 1..n : body[k].id = id /\ Rank(body, id, k) = s + 1
<1> DEFINE R(k) == Rank(body, id, k)
           S == {m \in 0..Len(body) :
                   \A s \in Nat : s < R(m) => \E k \in 1..m : body[k].id = id /\ R(k) = s + 1}
<1>1. /\ R(0) = 0 /\ \A k \in Nat : R(k) \in Nat
      /\ \A k \in 1..Len(body) : /\ body[k].id = id => R(k) = R(k - 1) + 1
                                 /\ body[k].id # id => R(k) = R(k - 1)
  BY RankStep
<1> HIDE DEF R
<1>2. 0 \in S
  BY <1>1
<1>3. ASSUME NEW m \in 1..Len(body), m - 1 \in S PROVE m \in S
  <2>1. m - 1 \in Nat /\ m \in Nat /\ m \in 0..Len(body) /\ m \in 1..m
        /\ \A k \in 1..(m - 1) : k \in 1..m
    OBVIOUS
  <2>2. /\ R(m - 1) \in Nat /\ R(m) \in Nat
        /\ body[m].id = id => R(m) = R(m - 1) + 1
        /\ body[m].id # id => R(m) = R(m - 1)
    BY <1>1, <2>1
  <2>3. ASSUME NEW s \in Nat, s < R(m)
        PROVE  \E k \in 1..m : body[k].id = id /\ R(k) = s + 1
    <3>1. CASE s < R(m - 1)
      <4>1. PICK k \in 1..(m - 1) : body[k].id = id /\ R(k) = s + 1
        BY <1>3, <3>1
      <4> QED BY <2>1, <4>1
    <3>2. CASE ~(s < R(m - 1))
      BY <2>1, <2>2, <2>3, <3>2
    <3> QED BY <3>1, <3>2
  <2> QED BY <2>1, <2>3
<1>4. Len(body) \in Nat
  OBVIOUS
<1>5. \A m \in 0..Len(body) : m \in S
  <2> HIDE DEF S
  <2> QED BY <1>2, <1>3, <1>4, LoopInduction
<1> QED BY <1>5 DEF R

\* The slot of the participant that is the n-th field of the update holds it.
InItsSlot(m, old, n, o) ==
  /\ ValidParticipant(Bodies(m)["update"][n])
  /\ SlotOf(m, n) \in 0..(o.participants - 1)
  /\ \A id \in InParticipant :
       o.slots[SlotOf(m, n)][id] =
         IF Occurrences(Bodies(m)["update"][n].body, {id}) = {} THEN old[SlotOf(m, n)][id]
         ELSE Found(Bodies(m)["update"][n].body, {id}).val

\* What is known when all structs are done: the participants of the message
\* are those of its update, each in a slot of its own.
LEMMA ParticipantsDone ==
  ASSUME NEW m \in Messages, NEW o, Cleared(o), NEW d, Stage(m, o, Structs, d), d.err = "ok"
  PROVE  /\ d.obj.participants = Cardinality(Participants(m))
         /\ d.obj.participants \in 0..MaxParticipants
         /\ \A n \in Participants(m) : InItsSlot(m, o.slots, n, d.obj)
         /\ \A s \in Slots : d.obj.slots[s] = o.slots[s] \/ \E n \in Participants(m) : SlotOf(m, n) = s
<1> DEFINE body == Bodies(m)["update"]
           R(k) == Rank(body, "participants", k)
<1>1. body \in Seq(Fields) /\ Len(body) \in Nat /\ DOMAIN body = 1..Len(body)
  BY BodiesAre, StructNames
<1>2. /\ Participants(m) = Occurrences(body, {"participants"})
      /\ \A n : SlotOf(m, n) = R(n) - 1
  BY DEF Participants, SlotOf
<1>3. ReadSlots(o.slots, body, Len(body), d.obj)
  BY StructNames DEF Stage
<1> HIDE DEF body
<1>4. /\ d.obj.participants = R(Len(body))
      /\ R(Len(body)) = Cardinality(Occurrences(body, {"participants"}))
      /\ d.obj.participants \in 0..MaxParticipants
  BY <1>1, <1>3, RankStep, ReaderType DEF ReadSlots, Stage
<1>5. \A n \in 1..Len(body) : body[n].id = "participants" => R(n) \in 1..R(Len(body))
  BY <1>1, RankOrder
<1>6. \A s \in Nat : s < R(Len(body)) =>
        \E k \in 1..Len(body) : body[k].id = "participants" /\ R(k) = s + 1
  BY <1>1, RankOnto
<1>7. ASSUME NEW n \in Participants(m) PROVE InItsSlot(m, o.slots, n, d.obj)
  <2>1. n \in 1..Len(body) /\ body[n].id = "participants"
    BY <1>1, <1>2 DEF Occurrences
  <2>2. R(n) \in 1..R(Len(body))
    BY <1>5, <2>1
  <2>3. SlotOf(m, n) \in 0..(d.obj.participants - 1)
    <3> HIDE DEF R
    <3> QED BY <1>2, <1>4, <2>2
  <2>4. /\ ValidParticipant(body[n])
        /\ \A id \in InParticipant :
             d.obj.slots[R(n) - 1][id] =
               IF Occurrences(body[n].body, {id}) = {} THEN o.slots[R(n) - 1][id]
               ELSE Found(body[n].body, {id}).val
    BY <1>3, <2>1 DEF ReadSlots
  <2>5. SlotOf(m, n) = R(n) - 1
    BY <1>2
  <2> HIDE DEF R
  <2> QED BY <2>3, <2>4, <2>5 DEF InItsSlot, body
<1>8. ASSUME NEW s \in Slots, ~(d.obj.slots[s] = o.slots[s])
      PROVE  \E n \in Participants(m) : SlotOf(m, n) = s
  <2>1. s \in Nat /\ ~(s >= R(Len(body)))
    BY <1>3, <1>8, Limits DEF ReadSlots, Slots
  <2> HIDE DEF R
  <2>2. R(Len(body)) \in Nat
    BY <1>4
  <2>3. PICK k \in 1..Len(body) : body[k].id = "participants" /\ R(k) = s + 1
    BY <1>6, <2>1, <2>2
  <2>4. k \in Participants(m) /\ SlotOf(m, k) = s
    BY <1>1, <1>2, <2>1, <2>3 DEF Occurrences
  <2> QED BY <2>4
<1> QED BY <1>2, <1>4, <1>7, <1>8 DEF body

\* The length that parser_validate bounds is that of the memo, or that of the
\* signature that lies there.
LEMMA MemoRead ==
  ASSUME NEW m \in Messages, NEW o, Cleared(o), NEW d, Stage(m, o, Structs, d), d.err = "ok"
  PROVE  MemoLen(d.obj) > 128 <=> ~(Found(Bodies(m)["send"], {"memo"}).val <= 128 /\ FitsMemo(m))
<1>1. /\ \A n \in Participants(m) :
           /\ SlotOf(m, n) \in Slots
           /\ d.obj.slots[SlotOf(m, n)]["signature"] =
                IF Occurrences(Bodies(m)["update"][n].body, {"signature"}) = {}
                  THEN o.slots[SlotOf(m, n)]["signature"]
                  ELSE Found(Bodies(m)["update"][n].body, {"signature"}).val
      /\ \A s \in Slots : d.obj.slots[s] = o.slots[s] \/ \E n \in Participants(m) : SlotOf(m, n) = s
  <2>1. "signature" \in InParticipant
    BY DEF InParticipant
  <2>2. ASSUME NEW n \in Participants(m)
        PROVE  /\ SlotOf(m, n) \in 0..(d.obj.participants - 1)
               /\ d.obj.slots[SlotOf(m, n)]["signature"] =
                    IF Occurrences(Bodies(m)["update"][n].body, {"signature"}) = {}
                      THEN o.slots[SlotOf(m, n)]["signature"]
                      ELSE Found(Bodies(m)["update"][n].body, {"signature"}).val
    <3>1. InItsSlot(m, o.slots, n, d.obj)
      BY ParticipantsDone
    <3> QED BY <2>1, <3>1 DEF InItsSlot
  <2>3. d.obj.participants \in 0..MaxParticipants
    BY ParticipantsDone
  <2>4. 0..(d.obj.participants - 1) \subseteq Slots
    BY <2>3, TxParserAssumption DEF Slots
  <2>5. \A s \in Slots : d.obj.slots[s] = o.slots[s] \/ \E n \in Participants(m) : SlotOf(m, n) = s
    BY ParticipantsDone
  <2> QED BY <2>2, <2>4, <2>5
<1>2. /\ \A s \in Structs : Bodies(m)[s] \in Seq(Fields)
      /\ \A k \in Kinds : Bodies(m)[k] = Found(m.root, {k}).body /\ Bodies(m)[k] \in Seq(Fields)
      /\ m.root \in Seq(Fields) /\ Bodies(m)["root"] = m.root
  BY BodiesAre, StructNames DEF Kinds
<1>3. \A ids : Occurrences(<<>>, ids) = {} /\ Found(<<>>, ids).val = 0
  BY DEF Occurrences, Found, NoField
<1>4. CASE Present(d.obj, "root", "update")
  <2>1. Found(Bodies(m)["send"], {"memo"}).val = 0
    <3>1. Bodies(m)["send"] = <<>>
      BY <1>4, KindRead, StructNames DEF Kinds
    <3> QED BY <1>3, <3>1
  <2>2. CASE MemoSlot \notin Slots
    <3>1. MemoLen(d.obj) = 0
      BY <1>4, <2>2 DEF MemoLen
    <3>2. FitsMemo(m)
      BY <1>1, <2>2 DEF FitsMemo
    <3> QED BY <2>1, <3>1, <3>2
  <2>3. CASE MemoSlot \in Slots
    <3>1. MemoLen(d.obj) = d.obj.slots[MemoSlot]["signature"]
      BY <1>4, <2>3 DEF MemoLen
    <3>2. o.slots[MemoSlot]["signature"] = 0
      BY <2>3, TxParserAssumption DEF Cleared
    <3>3. ASSUME NEW n \in Participants(m), SlotOf(m, n) = MemoSlot
          PROVE  /\ MemoLen(d.obj) = Found(Bodies(m)["update"][n].body, {"signature"}).val
                 /\ MemoLen(d.obj) \in Nat
      <4>1. Bodies(m)["update"][n].body \in Seq(Fields)
        <5>1. Bodies(m)["update"][n] \in Fields
          BY <1>2, StructNames DEF Participants, Occurrences
        <5> QED BY <5>1, FieldType
      <4>2. /\ Found(Bodies(m)["update"][n].body, {"signature"}).val \in Nat
            /\ Occurrences(Bodies(m)["update"][n].body, {"signature"}) = {} =>
                 Found(Bodies(m)["update"][n].body, {"signature"}).val = 0
        BY <4>1, FoundType DEF NoField
      <4> QED BY <1>1, <3>1, <3>2, <3>3, <4>2
    <3>4. CASE \E n \in Participants(m) : SlotOf(m, n) = MemoSlot
      BY <2>1, <3>3, <3>4 DEF FitsMemo
    <3>5. CASE ~\E n \in Participants(m) : SlotOf(m, n) = MemoSlot
      <4>1. MemoLen(d.obj) = 0 /\ FitsMemo(m)
        BY <1>1, <2>3, <3>1, <3>2, <3>5 DEF FitsMemo
      <4> QED BY <2>1, <4>1
    <3> QED BY <3>4, <3>5
  <2> QED BY <2>2, <2>3
<1>5. CASE ~Present(d.obj, "root", "update")
  <2>1. "memo" \in Single("send") /\ <<"send", "memo">> \notin Uncleared
        /\ "update" \in Single("root") /\ <<"root", "update">> \notin Uncleared
    BY SingleNames DEF Uncleared
  <2>2. /\ d.obj.fields["send"]["memo"] = Found(Bodies(m)["send"], {"memo"})
        /\ d.obj.fields["root"]["update"] = Found(Bodies(m)["root"], {"update"})
    BY <2>1, StageField, StructNames
  <2>3. MemoLen(d.obj) = Found(Bodies(m)["send"], {"memo"}).val /\ MemoLen(d.obj) \in Nat
    BY <1>2, <1>5, <2>2, FoundType, StructNames DEF MemoLen
  <2>4. Bodies(m)["update"] = <<>>
    BY <1>2, <1>5, <2>2 DEF Present, NoField, Kinds
  <2>5. FitsMemo(m)
    BY <1>3, <2>4 DEF FitsMemo, Participants
  <2> QED BY <2>3, <2>5
<1> QED BY <1>4, <1>5

-------------------------------------------------------------------------------
(* Parsing a message *)

\* The object o describes the message m.
IsOf(m, o) ==
  /\ Counted(m, o)
  /\ o.participants = Cardinality(Participants(m))
  /\ \A n \in Participants(m) : \A id \in InParticipant :
       \/ Occurrences(Bodies(m)["update"][n].body, {id}) # {}
       \/ <<SlotOf(m, n), id>> \in Overlaid
       => o.slots[SlotOf(m, n)][id] = Found(Bodies(m)["update"][n].body, {id}).val
  /\ \A s \in Structs : \A id \in Single(s) :
       Occurrences(Bodies(m)[s], {id}) # {} \/ <<s, id>> \notin Uncleared =>
         o.fields[s][id] = Found(Bodies(m)[s], {id})

LEMMA DoneIsOf ==
  ASSUME NEW m \in Messages, NEW o, Cleared(o), NEW d, Stage(m, o, Structs, d), d.err = "ok"
  PROVE  IsOf(m, d.obj)
<1>1. Counted(m, d.obj) /\ d.obj.participants = Cardinality(Participants(m))
  BY ParticipantsDone DEF Stage
<1>2. ASSUME NEW n \in Participants(m), NEW id \in InParticipant,
             \/ Occurrences(Bodies(m)["update"][n].body, {id}) # {}
             \/ <<SlotOf(m, n), id>> \in Overlaid
      PROVE  d.obj.slots[SlotOf(m, n)][id] = Found(Bodies(m)["update"][n].body, {id}).val
  <2> DEFINE body == Bodies(m)["update"][n].body
             slot == SlotOf(m, n)
  <2>1. InItsSlot(m, o.slots, n, d.obj) /\ d.obj.participants \in 0..MaxParticipants
    BY ParticipantsDone
  <2>2. /\ slot \in 0..(d.obj.participants - 1)
        /\ Occurrences(body, {id}) = {} => d.obj.slots[slot][id] = o.slots[slot][id]
        /\ Occurrences(body, {id}) # {} => d.obj.slots[slot][id] = Found(body, {id}).val
    BY <2>1 DEF InItsSlot
  <2>3. slot \in Slots
    <3> HIDE DEF slot
    <3> QED BY <2>1, <2>2, Limits DEF Slots
  <2>4. <<slot, id>> \in Overlaid => o.slots[slot][id] = 0
    BY <2>3 DEF Cleared, InParticipant
  <2>5. body \in Seq(Fields)
    <3>1. Bodies(m)["update"] \in Seq(Fields)
      BY BodiesAre, StructNames
    <3>2. Bodies(m)["update"][n] \in Fields
      BY <3>1 DEF Participants, Occurrences
    <3> QED BY <3>2, FieldType
  <2>6. Occurrences(body, {id}) = {} => Found(body, {id}).val = 0
    <3> HIDE DEF body
    <3>1. Occurrences(body, {id}) = {} => Found(body, {id}) = NoField
      BY <2>5, FoundType
    <3>2. NoField.val = 0
      BY DEF NoField
    <3> QED BY <3>1, <3>2
  <2> HIDE DEF body, slot
  <2>7. Occurrences(body, {id}) # {} \/ <<slot, id>> \in Overlaid =>
          d.obj.slots[slot][id] = Found(body, {id}).val
    BY <2>2, <2>4, <2>6
  <2> QED BY <1>2, <2>7 DEF body, slot
<1>3. ASSUME NEW s \in Structs, NEW id \in Single(s),
             Occurrences(Bodies(m)[s], {id}) # {} \/ <<s, id>> \notin Uncleared
      PROVE  d.obj.fields[s][id] = Found(Bodies(m)[s], {id})
  <2>1. CASE <<s, id>> \notin Uncleared
    BY <2>1, StageField
  <2>2. CASE Occurrences(Bodies(m)[s], {id}) # {}
    BY <2>2 DEF Stage
  <2> QED BY <1>3, <2>1, <2>2
<1> QED BY <1>1, <1>2, <1>3 DEF IsOf

\* What tx_parse makes of a message and of the object left by the one before
ParseResult(m, o, r) ==
  /\ r \in Readers
  /\ r.err = "ok" => WellFormed(m) /\ IsOf(m, r.obj)
  /\ /\ WellFormed(m)
     /\ \A n \in Participants(m) : <<SlotOf(m, n), "seen">> \in Overlaid
     => r.err = IF FitsMemo(m) THEN "ok" ELSE "unexpected_buffer_end"

LEMMA MessageParsed ==
  ASSUME NEW m \in Messages, NEW o \in Objs
  PROVE  ParseResult(m, o, TxParse(o, m))
<1> DEFINE r == TxParse(o, m)
<1>1. CASE m.header \in {"empty", "unreadable"}
  <2> DEFINE header == [obj |-> IF m.header = "empty" THEN o ELSE TxInit(o), err |-> "unreadable"]
  <2>1. header \in Readers /\ header.err = "unreadable"
    BY InitClears DEF Readers, Errors, Cleared
  <2>2. r = Validate(ReadMessage(ReadFees(header)), m.header)
    BY <1>1 DEF TxParse
  <2> HIDE DEF header
  <2>3. r = header
    <3>1. ReadNested(header, "root", "fees", "fees") = header
      BY <2>1 DEF ReadNested
    <3>2. ReadNested(header, "fees", "coin", "coin") = header
      BY <2>1 DEF ReadNested
    <3>3. ReadFees(header) = header
      BY <2>1, <3>1, <3>2 DEF ReadFees, ReadCoin, ValidateCoin
    <3>4. ReadMessage(header) = header
      BY <2>1 DEF ReadMessage
    <3> QED BY <2>1, <2>2, <3>3, <3>4 DEF Validate
  <2>4. ~WellFormed(m)
    BY <1>1, TxParserAssumption DEF WellFormed
  <2> QED BY <2>1, <2>3, <2>4 DEF ParseResult
<1>2. CASE m.header \notin {"empty", "unreadable"}
  <2> DEFINE p == TxInit(o)
             root == ReadStruct([obj |-> p, err |-> "ok"], "root", m.root)
             d == ReadMessage(ReadFees(root))
  <2>1. r = Validate(d, m.header)
    BY <1>2 DEF TxParse
  <2>2. Cleared(p)
    BY InitClears
  <2> HIDE DEF p
  <2>3. Stage(m, p, {"root"}, root)
    BY <2>2, RootStage
  <2> HIDE DEF root
  <2>4. Stage(m, p, {"root", "fees", "coin"}, ReadFees(root))
    BY <2>2, <2>3, FeesStage
  <2>5. Stage(m, p, Structs, d) /\ (d.err = "ok" => Occurrences(m.root, Kinds) # {})
    BY <2>2, <2>4, MessageStage
  <2> HIDE DEF d
  <2>6. d \in Readers /\ (Acceptable(m, p) => d.err = "ok")
    BY <2>5 DEF Stage
  <2>7. ASSUME WellFormed(m), \A n \in Participants(m) : <<SlotOf(m, n), "seen">> \in Overlaid
        PROVE  d.err = "ok"
    <3>1. ASSUME NEW n \in Participants(m) PROVE p.slots[SlotOf(m, n)].seen = {}
      <4>1. <<SlotOf(m, n), "seen">> \in Overlaid
        BY <2>7
      <4>2. SlotOf(m, n) \in Slots
        BY <4>1, TxParserAssumption
      <4> QED BY <2>2, <4>1, <4>2 DEF Cleared
    <3> QED BY <2>6, <2>7, <3>1 DEF Acceptable
  <2>8. CASE d.err # "ok"
    <3>1. r = d
      BY <2>1, <2>8 DEF Validate
    <3> QED BY <2>6, <2>7, <2>8, <3>1 DEF ParseResult
  <2>9. CASE d.err = "ok"
    <3>1. /\ MemoLen(d.obj) > 128 <=>
               ~(Found(Bodies(m)["send"], {"memo"}).val <= 128 /\ FitsMemo(m))
          /\ IsOf(m, d.obj)
      BY <2>2, <2>5, <2>9, MemoRead, DoneIsOf
    <3>2. r = IF m.header # Network THEN Fail(d, "unexpected_chain")
              ELSE IF MemoLen(d.obj) > 128 THEN Fail(d, "unexpected_buffer_end") ELSE d
      BY <2>1, <2>9 DEF Validate
    <3>3. /\ \A s \in Structs : ValidStruct(s, Bodies(m)[s])
          /\ Occurrences(m.root, Kinds) # {} /\ AtMostOnce(m.root, Kinds)
      BY <2>5, <2>9 DEF Stage
    <3>4. Cardinality(Occurrences(m.root, {"multisig"})) <= MaxMultisig
      BY <2>5, <2>9, ReaderType DEF Stage, Counted
    <3>5. /\ Cardinality(Participants(m)) <= MaxParticipants
          /\ \A n \in Participants(m) : ValidParticipant(Bodies(m)["update"][n])
      <4>1. /\ d.obj.participants = Cardinality(Participants(m))
            /\ d.obj.participants \in 0..MaxParticipants
        BY <2>2, <2>5, <2>9, ParticipantsDone
      <4>2. \A n \in Participants(m) : InItsSlot(m, p.slots, n, d.obj)
        BY <2>2, <2>5, <2>9, ParticipantsDone
      <4> QED BY <4>1, <4>2 DEF InItsSlot
    <3>6. CASE m.header # Network
      <4>1. r \in Readers /\ r.err # "ok"
        BY <2>6, <3>2, <3>6, FailType DEF Errors
      <4> QED BY <3>6, <4>1 DEF ParseResult, WellFormed
    <3>7. CASE m.header = Network /\ MemoLen(d.obj) > 128
      <4>1. r \in Readers /\ r.err = "unexpected_buffer_end"
        BY <2>6, <3>2, <3>7, FailType DEF Errors
      <4>2. WellFormed(m) => ~FitsMemo(m)
        BY <3>1, <3>7 DEF WellFormed
      <4> QED BY <4>1, <4>2 DEF ParseResult
    <3>8. CASE m.header = Network /\ ~(MemoLen(d.obj) > 128)
      <4>1. r = d /\ Found(Bodies(m)["send"], {"memo"}).val <= 128 /\ FitsMemo(m)
        BY <3>1, <3>2, <3>8
      <4>2. WellFormed(m)
        BY <3>3, <3>4, <3>5, <3>8, <4>1 DEF WellFormed
      <4> QED BY <2>6, <2>9, <3>1, <4>1, <4>2 DEF ParseResult
    <3> QED BY <3>6, <3>7, <3>8
  <2> QED BY <2>8, <2>9
<1> QED BY <1>1, <1>2

-------------------------------------------------------------------------------
(* The theorems *)

\* The properties, with what the object may be: all that the parser needs to
\* know of the messages before.
ParserInv ==
  /\ obj \in Objs
  /\ AcceptedIsWellFormed /\ HistoryDoesNotRefuse /\ FieldsAreOfTheMessage

LEMMA BeforeTheFirst ==
  Empty \in Objs /\ ~WellFormed([header |-> "none", root |-> <<>>])
<1>1. Empty \in Objs
  <2> DEFINE none == [s \in Structs |-> {}]
             nothing == [s \in Structs |-> [id \in Single(s) |-> NoField]]
             fresh == [s \in Slots |-> EmptySlot]
  <2>1. none \in [Structs -> SUBSET Bits]
    OBVIOUS
  <2>2. nothing \in FieldTypes
    <3>1. \A s \in Structs : nothing[s] \in [Single(s) -> Fields \cup {NoField}]
      OBVIOUS
    <3> QED BY <3>1 DEF FieldTypes
  <2>3. fresh \in [Slots -> SlotTypes]
    BY DEF EmptySlot, SlotTypes, Lengths
  <2>4. <<>> \in {s \in Seq(Nat) : Len(s) <= MaxMultisig} /\ 0 \in 0..MaxParticipants
    BY Limits
  <2>5. Empty = [seen |-> none, fields |-> nothing, multisig |-> <<>>, participants |-> 0,
                 slots |-> fresh]
    BY DEF Empty
  <2> HIDE DEF none, nothing, fresh
  <2> QED BY <2>1, <2>2, <2>3, <2>4, <2>5 DEF Objs
<1>2. [header |-> "none", root |-> <<>>].header = "none"
  OBVIOUS
<1>3. ~WellFormed([header |-> "none", root |-> <<>>])
  BY <1>2, TxParserAssumption DEF WellFormed
<1> QED BY <1>1, <1>3

\* Every step keeps them, whatever the message.
LEMMA NextParserInv ==
  ASSUME ParserInv, [Next]_vars
  PROVE  ParserInv'
<1>1. CASE UNCHANGED vars
  <2>1. message' = message /\ obj' = obj /\ verdict' = verdict
    BY <1>1 DEF vars
  <2> QED BY <2>1 DEF ParserInv, AcceptedIsWellFormed, HistoryDoesNotRefuse,
                      FieldsAreOfTheMessage, Describes, Holds
<1>2. CASE PowerCycle
  <2>1. message' = [header |-> "none", root |-> <<>>] /\ obj' = Empty /\ verdict' = "none"
    BY <1>2 DEF PowerCycle
  <2>2. obj' \in Objs /\ ~WellFormed(message')
    BY <2>1, BeforeTheFirst
  <2> QED BY <2>1, <2>2 DEF ParserInv, AcceptedIsWellFormed, HistoryDoesNotRefuse,
                            FieldsAreOfTheMessage
<1>3. ASSUME NEW m \in Messages, Parse(m) PROVE ParserInv'
  <2>1. message' = m /\ obj' = TxParse(obj, m).obj /\ verdict' = TxParse(obj, m).err
    BY <1>3 DEF Parse
  <2>2. ParseResult(m, obj, TxParse(obj, m))
    BY MessageParsed DEF ParserInv
  <2>3. /\ obj' \in Objs
        /\ verdict' = "ok" => WellFormed(m) /\ IsOf(m, obj')
        /\ /\ WellFormed(m)
           /\ \A n \in Participants(m) : <<SlotOf(m, n), "seen">> \in Overlaid
           => verdict' = IF FitsMemo(m) THEN "ok" ELSE "unexpected_buffer_end"
    BY <2>1, <2>2, ReaderType DEF ParseResult
  <2>4. AcceptedIsWellFormed'
    BY <2>1, <2>3 DEF AcceptedIsWellFormed
  <2>5. HistoryDoesNotRefuse'
    BY <2>1, <2>3 DEF HistoryDoesNotRefuse
  <2>6. ASSUME IsOf(m, obj') PROVE FieldsAreOfTheMessage'
    <3>1. \A n \in Participants(m) : Describes(SlotOf(m, n), Bodies(m)["update"][n])'
      BY <2>6 DEF IsOf, Describes
    <3>2. \A s \in Structs : \A id \in Single(s) : Holds(s, id, Bodies(m)[s])'
      BY <2>6 DEF IsOf, Holds
    <3> QED BY <2>1, <2>6, <3>1, <3>2 DEF IsOf, Counted, FieldsAreOfTheMessage, Describes, Holds
  <2>7. FieldsAreOfTheMessage'
    <3>1. verdict' # "ok" => FieldsAreOfTheMessage'
      BY DEF FieldsAreOfTheMessage
    <3> QED BY <2>3, <2>6, <3>1
  <2> QED BY <2>3, <2>4, <2>5, <2>7 DEF ParserInv
<1> QED BY <1>1, <1>2, <1>3 DEF Next

\* Whatever messages were parsed, in whatever order, the object is of its type
\* and the three properties of the parser hold together (parser_impl.c:602-690,
\* parser_txdef.c:127-156): of the messages before, nothing else matters.
THEOREM ParserInvariant == Spec => []ParserInv
<1>1. Init => ParserInv
  BY BeforeTheFirst DEF Init, ParserInv, AcceptedIsWellFormed, HistoryDoesNotRefuse,
                       FieldsAreOfTheMessage
<1>2. ParserInv /\ [Next]_vars => ParserInv'
  BY NextParserInv
<1> QED BY <1>1, <1>2, PTL DEF Spec

\* The seen bits are those that the header file declares, and no counter
\* passes the array it indexes, for messages of any length.
THEOREM TypeCorrect == Spec => []TypeOK
<1>1. ParserInv => TypeOK
  <2> SUFFICES ASSUME obj \in Objs PROVE TypeOK
    BY DEF ParserInv
  <2>1. /\ obj.seen \in [Structs -> SUBSET Bits]
        /\ obj.multisig \in Seq(Nat) /\ Len(obj.multisig) <= MaxMultisig
        /\ obj.participants \in 0..MaxParticipants
        /\ obj.slots \in [Slots -> SlotTypes]
    BY DEF Objs
  <2> QED BY <2>1 DEF TypeOK, Bits, SlotTypes
<1> QED BY <1>1, ParserInvariant, PTL

\* Whatever was parsed before, only a message that is well formed as a whole, the
\* letters of its tickers included, is accepted.
THEOREM OnlyWellFormed == Spec => []AcceptedIsWellFormed
<1>1. ParserInv => AcceptedIsWellFormed
  BY DEF ParserInv
<1> QED BY <1>1, ParserInvariant, PTL

\* A well formed message, in which a ticker is of uppercase letters, is refused at
\* most for a memo that is not there, and never for what was parsed before it,
\* while its slots are cleared (parser_impl.c:240-248, 320-328, parser.c:80-90).
THEOREM NoHistory == Spec => []HistoryDoesNotRefuse
<1>1. ParserInv => HistoryDoesNotRefuse
  BY DEF ParserInv
<1> QED BY <1>1, ParserInvariant, PTL

\* What is accepted is described by its own fields, for every layout of the
\* union and every sequence of messages.
THEOREM OwnFields == Spec => []FieldsAreOfTheMessage
<1>1. ParserInv => FieldsAreOfTheMessage
  BY DEF ParserInv
<1> QED BY <1>1, ParserInvariant, PTL
===============================================================================
