----------------------------- MODULE WireProofs -----------------------------
(* What a frame holds, for every set of arrays and frames of any length.     *)
EXTENDS Wire, FilterProofs

(* The frames are frames; nothing of a response is left when the model has   *)
(* yet to return one.                                                        *)
IInv ==
  /\ given \in Seq(Array) /\ returned \in Seq(Array)
  /\ obs \in Frame /\ resp \in Frame
  /\ phase \in {"building", "sent", "queued", "called"} => returned = <<>>
  /\ SlicesMatch

-----------------------------------------------------------------------------
(* Slices and frames.                                                        *)

\* The bytes at o, n of them, of a payload that goes that far.
LEMMA SliceElements ==
  ASSUME NEW p \in Seq(Byte), NEW o \in Nat, NEW n \in Nat, o + n <= Len(p)
  PROVE  /\ SubSeq(p, o + 1, o + n) \in Seq(Byte)
         /\ Len(SubSeq(p, o + 1, o + n)) = n
         /\ \A i \in 1 .. n : SubSeq(p, o + 1, o + n)[i] = p[o + i]
<1>1. \A i \in o + 1 .. o + n : p[i] \in Byte
  BY LenProperties
<1>2. o + 1 \in Int /\ o + n \in Int
  OBVIOUS
<1> QED
  BY <1>1, <1>2, SubSeqProperties

\* Appending to a payload changes no slice of it.
LEMMA SliceStays ==
  ASSUME NEW p \in Seq(Byte), NEW q \in Seq(Byte),
         NEW o \in Nat, NEW n \in Nat, o + n <= Len(p)
  PROVE  SubSeq(p \o q, o + 1, o + n) = SubSeq(p, o + 1, o + n)
<1>1. /\ p \o q \in Seq(Byte) /\ Len(p \o q) = Len(p) + Len(q)
      /\ \A i \in 1 .. Len(p) + Len(q) :
           (p \o q)[i] = IF i <= Len(p) THEN p[i] ELSE q[i - Len(p)]
  BY ConcatProperties
<1>2. Len(p) \in Nat /\ Len(q) \in Nat
  BY LenProperties
<1>3. o + n <= Len(p \o q)
  BY <1>1, <1>2
<1>4. /\ SubSeq(p, o + 1, o + n) \in Seq(Byte)
      /\ Len(SubSeq(p, o + 1, o + n)) = n
      /\ \A i \in 1 .. n : SubSeq(p, o + 1, o + n)[i] = p[o + i]
  BY SliceElements
<1>5. /\ SubSeq(p \o q, o + 1, o + n) \in Seq(Byte)
      /\ Len(SubSeq(p \o q, o + 1, o + n)) = n
      /\ \A i \in 1 .. n : SubSeq(p \o q, o + 1, o + n)[i] = (p \o q)[o + i]
  BY <1>1, <1>3, SliceElements
<1>6. \A i \in 1 .. n : (p \o q)[o + i] = p[o + i]
  BY <1>1, <1>2
<1> QED
  BY <1>4, <1>5, <1>6, SeqEqual

\* What was appended is the last slice.
LEMMA SliceAppended ==
  ASSUME NEW p \in Seq(Byte), NEW q \in Seq(Byte)
  PROVE  SubSeq(p \o q, Len(p) + 1, Len(p) + Len(q)) = q
<1>1. /\ p \o q \in Seq(Byte) /\ Len(p \o q) = Len(p) + Len(q)
      /\ \A i \in 1 .. Len(p) + Len(q) :
           (p \o q)[i] = IF i <= Len(p) THEN p[i] ELSE q[i - Len(p)]
  BY ConcatProperties
<1>2. Len(p) \in Nat /\ Len(q) \in Nat
  BY LenProperties
<1>3. /\ SubSeq(p \o q, Len(p) + 1, Len(p) + Len(q)) \in Seq(Byte)
      /\ Len(SubSeq(p \o q, Len(p) + 1, Len(p) + Len(q))) = Len(q)
      /\ \A i \in 1 .. Len(q) :
           SubSeq(p \o q, Len(p) + 1, Len(p) + Len(q))[i] = (p \o q)[Len(p) + i]
  BY <1>1, <1>2, SliceElements
<1>4. \A i \in 1 .. Len(q) : (p \o q)[Len(p) + i] = q[i]
  BY <1>1, <1>2
<1> QED
  BY <1>3, <1>4, SeqEqual

\* x lies in payload p, n bytes from o on.
At(p, o, n, x) == o + n <= Len(p) /\ SubSeq(p, o + 1, o + n) = x

LEMMA AtStays ==
  ASSUME NEW p \in Seq(Byte), NEW q \in Seq(Byte), NEW o \in Nat, NEW n \in Nat, NEW x,
         At(p, o, n, x)
  PROVE  At(p \o q, o, n, x)
<1>1. o + n <= Len(p) /\ SubSeq(p, o + 1, o + n) = x
  BY DEF At
<1>2. SubSeq(p \o q, o + 1, o + n) = x
  BY <1>1, SliceStays
<1>3. Len(p \o q) = Len(p) + Len(q) /\ Len(p) \in Nat /\ Len(q) \in Nat
  BY ConcatProperties, LenProperties
<1> QED
  BY <1>1, <1>2, <1>3 DEF At

LEMMA AtEnd ==
  ASSUME NEW p \in Seq(Byte), NEW q \in Seq(Byte)
  PROVE  At(p \o q, Len(p), Len(q), q) /\ Len(p \o q) = Len(p) + Len(q)
<1>1. Len(p \o q) = Len(p) + Len(q) /\ Len(p) \in Nat /\ Len(q) \in Nat
  BY ConcatProperties, LenProperties
<1> QED
  BY <1>1, SliceAppended DEF At

LEMMA SliceAt ==
  ASSUME NEW f, NEW d, NEW x
  PROVE  (/\ d.byte_offset + d.byte_length <= Len(f.payload)
          /\ Slice(f, d) = x)
         <=> At(f.payload, d.byte_offset, d.byte_length, x)
BY Zenon DEF Slice, At

\* t is s with x behind it.
Extends(S, s, x, t) ==
  /\ t \in Seq(S) /\ Len(t) = Len(s) + 1
  /\ DOMAIN s = 1 .. Len(s) /\ DOMAIN t = 1 .. Len(s) + 1
  /\ \A i \in 1 .. Len(s) : s[i] \in S /\ t[i] = s[i]
  /\ t[Len(s) + 1] = x
  /\ \A i \in 1 .. Len(s) + 1 : i \in 1 .. Len(s) \/ i = Len(s) + 1

LEMMA AppendExtends ==
  ASSUME NEW S, NEW s \in Seq(S), NEW x \in S
  PROVE  Extends(S, s, x, Append(s, x))
<1>1. Append(s, x) \in Seq(S) /\ Len(Append(s, x)) = Len(s) + 1
  OBVIOUS
<1>2. Len(s) \in Nat /\ DOMAIN s = 1 .. Len(s) /\ \A i \in 1 .. Len(s) : s[i] \in S
  BY LenProperties
<1>3. DOMAIN Append(s, x) = 1 .. Len(s) + 1
  BY <1>1, LenProperties
<1>4. \A i \in 1 .. Len(s) : Append(s, x)[i] = s[i]
  BY <1>2
<1>5. Append(s, x)[Len(s) + 1] = x
  BY <1>2
<1>6. \A i \in 1 .. Len(s) + 1 : i \in 1 .. Len(s) \/ i = Len(s) + 1
  BY <1>2
<1> QED
  BY <1>1, <1>2, <1>3, <1>4, <1>5, <1>6 DEF Extends

\* t has x at a place n of its own, and s elsewhere.
Grows(s, x, t, n) ==
  /\ DOMAIN t = DOMAIN s \union {n} /\ t[n] = x
  /\ \A i \in DOMAIN s : t[i] = s[i]

LEMMA ExtendsGrows ==
  ASSUME NEW S, NEW s \in Seq(S), NEW x, NEW t, Extends(S, s, x, t)
  PROVE  Grows(s, x, t, Len(s) + 1)
<1> DEFINE l == Len(s)
<1>1. l \in Nat
  BY LenProperties
<1>2. DOMAIN s = 1 .. l /\ DOMAIN t = 1 .. l + 1 /\ t[l + 1] = x
  BY DEF Extends
<1>3. \A i \in 1 .. l : t[i] = s[i]
  BY DEF Extends
<1> HIDE DEF l
<1>4. 1 .. l + 1 = (1 .. l) \union {l + 1}
  BY <1>1
<1>5. DOMAIN t = DOMAIN s \union {l + 1}
  BY <1>2, <1>4
<1>6. \A i \in DOMAIN s : t[i] = s[i]
  BY <1>2, <1>3
<1> QED
  BY <1>2, <1>5, <1>6, Zenon DEF l, Grows

\* The descriptor of a written behind n bytes.
DescriptorOf(a, n) == [key |-> a.key, dtype |-> a.dtype, elems |-> a.elems,
                       byte_offset |-> n, byte_length |-> Len(a.data)]

LEMMA DescriptorType ==
  ASSUME NEW a \in Array, a.dtype \in DType \union {Unspecified}, NEW n \in Nat
  PROVE  DescriptorOf(a, n) \in Descriptor /\ a.data \in Seq(Byte)
<1>1. a.data \in Seq(Byte) /\ a.key \in Key /\ a.elems \in Nat
  BY WireAssumption
<1>2. Len(a.data) \in Nat
  BY <1>1, LenProperties
<1> QED
  BY <1>1, <1>2 DEF DescriptorOf, Descriptor

\* The parts of a frame that was written to.
LEMMA WriteParts ==
  ASSUME NEW f \in Frame, NEW a
  PROVE  WriteTensor(f, a)
           = [tensors |-> Append(f.tensors, DescriptorOf(a, f.offset)),
              metadata |-> f.metadata, payload |-> f.payload \o a.data,
              offset |-> f.offset + Len(a.data)]
<1>1. f = [tensors |-> f.tensors, metadata |-> f.metadata,
           payload |-> f.payload, offset |-> f.offset]
  BY DEF Frame
<1>2. WriteTensor(f, a)
        = [f EXCEPT !.tensors = Append(f.tensors, DescriptorOf(a, f.offset)),
                    !.payload = f.payload \o a.data,
                    !.offset = f.offset + Len(a.data)]
  BY DEF WriteTensor, DescriptorOf
<1> QED
  BY <1>1, <1>2

LEMMA FrameParts ==
  ASSUME NEW f \in Frame
  PROVE  /\ f.tensors \in Seq(Descriptor) /\ f.payload \in Seq(Byte)
         /\ f.offset \in Nat /\ f.metadata \in SUBSET Key
BY DEF Frame

LEMMA RecordParts ==
  ASSUME NEW g, NEW ts, NEW md, NEW p, NEW o,
         g = [tensors |-> ts, metadata |-> md, payload |-> p, offset |-> o]
  PROVE  g.tensors = ts /\ g.payload = p /\ g.offset = o
OBVIOUS

\* One turn of a loop that writes a frame.
LEMMA WriteHolds ==
  ASSUME NEW f \in Frame, NEW as \in Seq(Array), NEW a \in Array,
         a.dtype \in DType \union {Unspecified}, Holds(f, as)
  PROVE  WriteTensor(f, a) \in Frame /\ Holds(WriteTensor(f, a), Append(as, a))
<1> DEFINE d == DescriptorOf(a, f.offset)
           g == WriteTensor(f, a)
           ts == f.tensors
<1>1. ts \in Seq(Descriptor) /\ f.payload \in Seq(Byte) /\ f.offset \in Nat
      /\ f.metadata \in SUBSET Key
  BY FrameParts, Zenon
<1>2. d \in Descriptor /\ a.data \in Seq(Byte)
  BY <1>1, DescriptorType, Zenon
<1>3. d.byte_offset = f.offset /\ d.byte_length = Len(a.data) /\ d.dtype = a.dtype
  BY DEF DescriptorOf
<1>4. g = [tensors |-> Append(ts, d), metadata |-> f.metadata,
           payload |-> f.payload \o a.data, offset |-> f.offset + Len(a.data)]
  BY WriteParts, Zenon
<1> HIDE DEF d, g, ts
<1>5. g.tensors = Append(ts, d) /\ g.payload = f.payload \o a.data
      /\ g.offset = f.offset + Len(a.data)
  BY <1>4, RecordParts, Zenon
<1>6. Extends(Descriptor, ts, d, g.tensors)
  BY <1>1, <1>2, <1>5, AppendExtends, Zenon
<1>7. Extends(Array, as, a, Append(as, a))
  BY AppendExtends, Zenon
<1>8. f.offset = Len(f.payload) /\ Len(ts) = Len(as)
  BY Zenon DEF Holds, ts
<1>9. /\ At(g.payload, d.byte_offset, d.byte_length, a.data)
      /\ g.offset = Len(g.payload)
  <2>1. /\ At(f.payload \o a.data, Len(f.payload), Len(a.data), a.data)
        /\ Len(f.payload \o a.data) = Len(f.payload) + Len(a.data)
    BY <1>1, <1>2, AtEnd, Zenon
  <2>2. At(g.payload, d.byte_offset, d.byte_length, a.data)
    BY <1>3, <1>5, <1>8, <2>1, Zenon
  <2>3. g.offset = Len(g.payload)
    BY <1>5, <1>8, <2>1, Zenon
  <2> QED
    BY <2>2, <2>3
<1>10. g \in Frame
  <2>1. f.offset + Len(a.data) \in Nat
    BY <1>1, <1>2, LenProperties
  <2>2. f.payload \o a.data \in Seq(Byte)
    BY <1>1, <1>2, ConcatProperties
  <2>3. Append(ts, d) \in Seq(Descriptor)
    BY <1>5, <1>6, Zenon DEF Extends
  <2> QED
    BY <1>1, <1>4, <2>1, <2>2, <2>3 DEF Frame
<1>11. ASSUME NEW i \in 1 .. Len(as)
       PROVE  /\ g.tensors[i].byte_offset + g.tensors[i].byte_length <= Len(g.payload)
              /\ Slice(g, g.tensors[i]) = Append(as, a)[i].data
              /\ g.tensors[i].dtype = Append(as, a)[i].dtype
  <2>1. g.tensors[i] = ts[i] /\ ts[i] \in Descriptor /\ Append(as, a)[i] = as[i]
        /\ i \in DOMAIN as
    BY <1>6, <1>7, <1>8, Zenon DEF Extends
  <2>2. At(f.payload, ts[i].byte_offset, ts[i].byte_length, as[i].data)
        /\ ts[i].dtype = as[i].dtype
    BY <2>1, SliceAt, Zenon DEF Holds, ts
  <2>3. ts[i].byte_offset \in Nat /\ ts[i].byte_length \in Nat
    BY <2>1 DEF Descriptor
  <2>4. At(g.payload, ts[i].byte_offset, ts[i].byte_length, as[i].data)
    BY <1>1, <1>2, <1>5, <2>2, <2>3, AtStays, Zenon
  <2> QED
    BY <2>1, <2>2, <2>4, SliceAt, Zenon
<1>12. ASSUME NEW i, i = Len(as) + 1
       PROVE  /\ g.tensors[i].byte_offset + g.tensors[i].byte_length <= Len(g.payload)
              /\ Slice(g, g.tensors[i]) = Append(as, a)[i].data
              /\ g.tensors[i].dtype = Append(as, a)[i].dtype
  <2>1. g.tensors[i] = d /\ Append(as, a)[i] = a
    BY <1>6, <1>7, <1>8, <1>12, Zenon DEF Extends
  <2> QED
    BY <1>3, <1>9, <2>1, SliceAt, Zenon
<1>13. /\ Len(g.tensors) = Len(Append(as, a))
       /\ \A i \in DOMAIN Append(as, a) : i \in 1 .. Len(as) \/ i = Len(as) + 1
  BY <1>6, <1>7, <1>8, Zenon DEF Extends
<1>14. Holds(g, Append(as, a))
  BY <1>9, <1>11, <1>12, <1>13, Zenon DEF Holds
<1> QED
  BY <1>10, <1>14 DEF g

\* What a frame holds does not depend on its metadata.
LEMMA TextHolds ==
  ASSUME NEW f \in Frame, NEW as, NEW K \in SUBSET Key, Holds(f, as)
  PROVE  LET g == [f EXCEPT !.metadata = K] IN g \in Frame /\ Holds(g, as)
<1> DEFINE g == [f EXCEPT !.metadata = K]
<1>1. g.tensors = f.tensors /\ g.payload = f.payload /\ g.offset = f.offset
  BY DEF Frame
<1>2. g \in Frame
  BY DEF Frame
<1> HIDE DEF g
<1>3. Holds(g, as)
  BY <1>1 DEF Holds, Slice
<1> QED
  BY <1>2, <1>3 DEF g

LEMMA EmptyHolds ==
  Empty \in Frame /\ Holds(Empty, <<>>) /\ <<>> \in Seq(Array)
BY DEF Empty, Frame, Holds

-----------------------------------------------------------------------------
(* The actions.                                                              *)

LEMMA InitIInv == Init => IInv
BY EmptyHolds DEF Init, IInv, SlicesMatch

LEMMA NextIInv == IInv /\ [Next]_vars => IInv'
<1> SUFFICES ASSUME IInv, [Next]_vars PROVE IInv'
  OBVIOUS
<1> USE DEF IInv, SlicesMatch
<1>1. ASSUME NEW a \in Array, ObserveTensor(a)
      PROVE  IInv'
  <2>1. a.dtype \in DType \union {Unspecified}
    BY <1>1, WireAssumption DEF ObserveTensor, Accepts, HasDType
  <2>2. obs' \in Frame /\ Holds(obs', given')
    BY <1>1, <2>1, WriteHolds DEF ObserveTensor
  <2> QED
    BY <1>1, <2>2 DEF ObserveTensor
<1>2. ASSUME NEW a \in Array, EncodeTensor(a)
      PROVE  IInv'
  <2>1. a.dtype \in DType \union {Unspecified}
    BY <1>2 DEF EncodeTensor, HasDType
  <2>2. resp' \in Frame /\ Holds(resp', returned')
    BY <1>2, <2>1, WriteHolds DEF EncodeTensor
  <2> QED
    BY <1>2, <2>2 DEF EncodeTensor
<1>3. ASSUME NEW k \in Key, ObserveText(k)
      PROVE  IInv'
  <2>1. obs.metadata \union {k} \in SUBSET Key
    BY DEF Frame
  <2>2. obs' = [obs EXCEPT !.metadata = obs.metadata \union {k}]
    BY <1>3 DEF ObserveText
  <2>3. obs' \in Frame /\ Holds(obs', given)
    BY <2>1, <2>2, TextHolds
  <2> QED
    BY <1>3, <2>3 DEF ObserveText
<1>4. CASE ModelReturns
  <2>1. PICK K \in SUBSET Key : resp' = [Empty EXCEPT !.metadata = K]
    BY <1>4 DEF ModelReturns
  <2>2. returned = <<>>
    BY <1>4 DEF ModelReturns
  <2>3. resp' \in Frame /\ Holds(resp', <<>>)
    BY <2>1, EmptyHolds, TextHolds
  <2> QED
    BY <1>4, <2>2, <2>3 DEF ModelReturns
<1>5. CASE InferenceFails
  BY <1>5, EmptyHolds DEF InferenceFails
<1>6. CASE Send \/ Decode \/ Reconstruct
  BY <1>6 DEF Send, Decode, Reconstruct, End
<1>7. CASE Answer \/ ParseResponse
  BY <1>7 DEF Answer, ParseResponse, End
<1>8. CASE UNCHANGED vars
  BY <1>8 DEF vars
<1> QED
  BY <1>1, <1>2, <1>3, <1>4, <1>5, <1>6, <1>7, <1>8 DEF Next

LEMMA IInvAlways == Spec => []IInv
BY InitIInv, NextIInv, PTL DEF Spec

-----------------------------------------------------------------------------
(* What the frames say of the arrays, and the dicts of the frames.           *)

Sound(a) == IsNdarray(a) /\ HasDType(a.dtype)

\* Each descriptor of f has the name, shape and length of its array.
Described(f, as) ==
  \A i \in DOMAIN as :
    /\ f.tensors[i].key = as[i].key /\ f.tensors[i].elems = as[i].elems
    /\ f.tensors[i].byte_length = Len(as[i].data)

Shown(f) == {i \in DOMAIN f.tensors : IsShown(f.tensors[i])}

\* The model's arrays have keys of their own.
Separate(f, as) ==
  /\ \A i \in DOMAIN as : Sound(as[i]) /\ as[i].key \notin f.metadata
  /\ \A i, j \in DOMAIN as : as[i].key = as[j].key => i = j

\* What the dicts were made from is still there when they are looked at.
JInv ==
  /\ sdk \in {"python", "native"} /\ named \in BOOLEAN
  /\ phase \in {"building", "sent", "queued", "called", "encoding", "answered", "done"}
  /\ outcome \in {"none", "observation_error", "loop_error", "dispatch_raised",
                  "dispatch_error", "result"}
  /\ outcome # "none" => phase = "done"
  /\ Described(obs, given) /\ Described(resp, returned) /\ Separate(resp, returned)
  /\ sdk = "python" => \A i \in DOMAIN given : Sound(given[i])
  /\ DOMAIN input \subseteq Key /\ DOMAIN output \subseteq Key
  /\ phase \in {"called", "encoding", "answered"} => input = ToDict(obs, DOMAIN obs.tensors)
  /\ outcome = "result" => output = ToDict(resp, Shown(resp))
  /\ PythonIsUnderstood

(* Frame f and the arrays as go together.                                    *)
LEMMA FrameHolds ==
  ASSUME NEW f \in Frame, NEW as \in Seq(Array), Holds(f, as), Described(f, as)
  PROVE  /\ DOMAIN f.tensors = DOMAIN as /\ DOMAIN as = 1 .. Len(as) /\ Len(as) \in Nat
         /\ \A i \in DOMAIN as :
              /\ as[i] \in Array /\ as[i].key \in Key
              /\ as[i].data \in Seq(Byte) /\ Len(as[i].data) \in Nat
              /\ f.tensors[i].dtype = as[i].dtype
              /\ f.tensors[i].byte_offset + f.tensors[i].byte_length <= Len(f.payload)
              /\ Slice(f, f.tensors[i]) = as[i].data
<1>1. f.tensors \in Seq(Descriptor)
  BY FrameParts
<1>2. DOMAIN f.tensors = 1 .. Len(f.tensors) /\ DOMAIN as = 1 .. Len(as) /\ Len(as) \in Nat
  BY <1>1, LenProperties
<1>3. DOMAIN f.tensors = DOMAIN as
  BY <1>2 DEF Holds
<1>4. ASSUME NEW i \in DOMAIN as
      PROVE  as[i] \in Array /\ as[i].key \in Key /\ as[i].data \in Seq(Byte) /\ Len(as[i].data) \in Nat
  <2>1. as[i] \in Array
    BY <1>2, ElementOfSeq
  <2>2. as[i].key \in Key /\ as[i].data \in Seq(Byte)
    BY <2>1, WireAssumption
  <2> QED
    BY <2>1, <2>2, LenProperties
<1> QED
  BY <1>2, <1>3, <1>4 DEF Holds

LEMMA WriteDescribed ==
  ASSUME NEW f \in Frame, NEW as \in Seq(Array), NEW a \in Array,
         Holds(f, as), Described(f, as), a.dtype \in DType \union {Unspecified}
  PROVE  /\ Described(WriteTensor(f, a), Append(as, a))
         /\ WriteTensor(f, a).metadata = f.metadata
<1> DEFINE d == DescriptorOf(a, f.offset)
           g == WriteTensor(f, a)
           ts == f.tensors
           n == Len(as) + 1
           bs == Append(as, a)
<1>1. ts \in Seq(Descriptor) /\ f.offset \in Nat
  BY FrameParts
<1>2. d \in Descriptor
  BY <1>1, DescriptorType
<1>3. d.key = a.key /\ d.elems = a.elems /\ d.byte_length = Len(a.data)
  BY DEF DescriptorOf
<1>4. g = [tensors |-> Append(ts, d), metadata |-> f.metadata,
           payload |-> f.payload \o a.data, offset |-> f.offset + Len(a.data)]
  BY WriteParts
<1>5. g.tensors = Append(ts, d) /\ g.metadata = f.metadata
  BY <1>4
<1>6. Len(ts) = Len(as)
  BY DEF Holds
<1> HIDE DEF d, g, ts
<1>7. /\ DOMAIN g.tensors = DOMAIN ts \union {n} /\ g.tensors[n] = d
      /\ \A i \in DOMAIN ts : g.tensors[i] = ts[i]
  <2>1. Extends(Descriptor, ts, d, g.tensors)
    BY <1>1, <1>2, <1>5, AppendExtends, Zenon
  <2> QED
    <3>1. Grows(ts, d, g.tensors, Len(ts) + 1)
      BY <1>1, <2>1, ExtendsGrows, Zenon
    <3> QED
      BY <1>6, <3>1 DEF Grows
<1>8. /\ DOMAIN bs = DOMAIN as \union {n} /\ bs[n] = a
      /\ \A i \in DOMAIN as : bs[i] = as[i]
  <2>1. Extends(Array, as, a, bs)
    BY AppendExtends, Zenon
  <2> HIDE DEF bs
  <2> QED
    <3>1. Grows(as, a, bs, Len(as) + 1)
      BY <2>1, ExtendsGrows, Zenon
    <3> QED
      BY <3>1, Zenon DEF Grows
<1>9. DOMAIN ts = DOMAIN as
  BY <1>1, <1>6, LenProperties
<1>10. \A i \in DOMAIN as : ts[i].key = as[i].key /\ ts[i].elems = as[i].elems
                            /\ ts[i].byte_length = Len(as[i].data)
  BY DEF Described, ts
<1> HIDE DEF n, bs
<1>11. Described(g, bs)
  BY <1>3, <1>7, <1>8, <1>9, <1>10 DEF Described
<1> QED
  BY <1>5, <1>11 DEF g, bs

LEMMA TextDescribed ==
  ASSUME NEW f \in Frame, NEW as, NEW K, Described(f, as)
  PROVE  Described([f EXCEPT !.metadata = K], as)
<1> DEFINE g == [f EXCEPT !.metadata = K]
<1>1. g.tensors = f.tensors
  BY DEF Frame
<1> HIDE DEF g
<1>2. Described(g, as)
  BY <1>1 DEF Described
<1> QED
  BY <1>2 DEF g

LEMMA EmptyDescribed ==
  Described(Empty, <<>>) /\ Separate(Empty, <<>>) /\ DOMAIN <<>> = {}
BY DEF Described, Separate

LEMMA ToDictKeys ==
  ASSUME NEW f \in Frame, NEW I
  PROVE  DOMAIN ToDict(f, I) = f.metadata \union {k \in Key : \E i \in I : f.tensors[i].key = k}
         /\ DOMAIN ToDict(f, I) \subseteq Key
<1>1. f.metadata \subseteq Key
  BY FrameParts
<1>2. DOMAIN ToDict(f, I) = f.metadata \union {k \in Key : {i \in I : f.tensors[i].key = k} # {}}
  BY DEF ToDict
<1>3. \A k : {i \in I : f.tensors[i].key = k} # {} <=> \E i \in I : f.tensors[i].key = k
  OBVIOUS
<1> QED
  BY <1>1, <1>2, <1>3

\* The last place in I where as has key k.
Latest(as, I, k) ==
  LET J == {i \in I : as[i].key = k}
  IN  CHOOSE i \in J : \A j \in J : j <= i

(* Under each key a dict shows the last array.                               *)
LEMMA DictShows ==
  ASSUME NEW f \in Frame, NEW as \in Seq(Array), Holds(f, as), Described(f, as),
         NEW I \in SUBSET (DOMAIN as), NEW q \in I, as[q].key \notin f.metadata
  PROVE  LET p == Latest(as, I, as[q].key)
         IN  p \in I /\ as[p].key = as[q].key /\ Shows(ToDict(f, I), as[p])
<1> DEFINE k == as[q].key
           J == {i \in I : as[i].key = k}
           p == Latest(as, I, k)
<1>1. /\ DOMAIN as = 1 .. Len(as) /\ Len(as) \in Nat /\ k \in Key /\ k \notin f.metadata
      /\ \A i \in I : f.tensors[i].key = as[i].key
  BY FrameHolds DEF Described
<1>2. J = {i \in I : f.tensors[i].key = k}
  BY <1>1
<1>3. J \subseteq 1 .. Len(as) /\ q \in J
  BY <1>1
<1>4. \E i \in J : \A j \in J : j <= i
  <2> DEFINE g == [i \in J |-> 0 - i]
  <2> HIDE DEF J
  <2>1. J \subseteq Int
    <3> DEFINE l == Len(as)
    <3>0. l \in Nat
      BY <1>1
    <3> HIDE DEF l
    <3>1. 1 .. l \subseteq Int
      BY <3>0
    <3> QED
      BY <1>3, <3>1 DEF l
  <2>2. IsFiniteSet(J)
    <3>1. 1 \in Int /\ Len(as) \in Int
      BY <1>1
    <3>2. IsFiniteSet(1 .. Len(as))
      BY <3>1, FS_Interval
    <3> QED
      BY <1>3, <3>2, FS_Subset
  <2>3. g \in [J -> Int] /\ \A i \in J : g[i] = 0 - i
    BY <2>1
  <2> HIDE DEF g
  <2>4. PICK i \in J : \A j \in J : g[i] <= g[j]
    BY <1>3, <2>2, <2>3, LeastExists
  <2>5. \A j \in J : j <= i
    BY <2>1, <2>3, <2>4
  <2> QED
    BY <2>5
<1>5. p = CHOOSE i \in J : \A j \in J : j <= i
  BY DEF Latest
<1>6. p \in J
  BY <1>4, <1>5
<1>7. ToDict(f, I)[k] = Tensor(f, f.tensors[p])
  <2> DEFINE L(j) == {i \in I : f.tensors[i].key = j}
             W(j) == CHOOSE i \in L(j) : \A l \in L(j) : l <= i
  <2>1. ToDict(f, I) = [j \in f.metadata \union {j \in Key : L(j) # {}} |->
                          IF j \in f.metadata THEN Text ELSE Tensor(f, f.tensors[W(j)])]
    BY DEF ToDict
  <2>2. L(k) = J /\ L(k) # {}
    BY <1>2, <1>3
  <2>3. W(k) = p
    BY <1>5, <2>2
  <2> HIDE DEF W, L
  <2> QED
    BY <1>1, <2>1, <2>2, <2>3
<1>8. p \in I /\ p \in DOMAIN as /\ as[p].key = k
  BY <1>6
<1>9. /\ f.tensors[p].dtype = as[p].dtype /\ Slice(f, f.tensors[p]) = as[p].data
      /\ f.tensors[p].elems = as[p].elems
  BY <1>8, FrameHolds DEF Described
<1> HIDE DEF p
<1>10. Shows(ToDict(f, I), as[p])
  BY <1>7, <1>8, <1>9 DEF Shows, Tensor
<1> QED
  BY <1>8, <1>10 DEF p

-----------------------------------------------------------------------------
(* The second invariant is inductive, given the first.                       *)

LEMMA InitJInv == Init => JInv
BY EmptyDescribed DEF Init, JInv, PythonIsUnderstood

LEMMA NextJInv == IInv /\ JInv /\ [Next]_vars => JInv'
<1> SUFFICES ASSUME IInv, JInv, [Next]_vars PROVE JInv'
  OBVIOUS
<1>1. /\ given \in Seq(Array) /\ returned \in Seq(Array) /\ obs \in Frame /\ resp \in Frame
      /\ Holds(obs, given) /\ Holds(resp, returned)
  BY DEF IInv, SlicesMatch
<1>2. Described(obs, given) /\ Described(resp, returned) /\ Separate(resp, returned)
  BY DEF JInv
<1>3. ASSUME NEW a \in Array, ObserveTensor(a) PROVE JInv'
  <2>1. a.dtype \in DType \union {Unspecified}
    BY <1>3, WireAssumption DEF ObserveTensor, Accepts, HasDType
  <2>2. Described(obs', given')
    BY <1>1, <1>2, <1>3, <2>1, WriteDescribed DEF ObserveTensor
  <2>3. sdk = "python" => \A i \in DOMAIN given' : Sound(given'[i])
    <3>1. sdk = "python" => Sound(a)
      BY <1>3 DEF ObserveTensor, Accepts, Sound
    <3>2. /\ DOMAIN given' = DOMAIN given \union {Len(given) + 1} /\ given'[Len(given) + 1] = a
          /\ \A i \in DOMAIN given : given'[i] = given[i]
      BY <1>1, <1>3, AppendFacts DEF ObserveTensor
    <3> QED
      BY <3>1, <3>2 DEF JInv
  <2>4. phase' = "building" /\ outcome' = "none"
    BY <1>3 DEF ObserveTensor, JInv
  <2> QED
    BY <1>3, <2>2, <2>3, <2>4 DEF ObserveTensor, JInv, PythonIsUnderstood
<1>4. ASSUME NEW a \in Array, EncodeTensor(a) PROVE JInv'
  <2>1. a.dtype \in DType \union {Unspecified} /\ Sound(a)
    BY <1>4 DEF EncodeTensor, HasDType, Sound
  <2>2. Described(resp', returned') /\ resp'.metadata = resp.metadata
    BY <1>1, <1>2, <1>4, <2>1, WriteDescribed DEF EncodeTensor
  <2>3. Separate(resp', returned')
    <3>1. /\ DOMAIN returned' = DOMAIN returned \union {Len(returned) + 1}
          /\ returned'[Len(returned) + 1] = a
          /\ \A i \in DOMAIN returned : returned'[i] = returned[i]
      BY <1>1, <1>4, AppendFacts DEF EncodeTensor
    <3>2. a.key \notin resp.metadata /\ \A i \in DOMAIN returned : returned[i].key # a.key
      BY <1>4 DEF EncodeTensor
    <3> QED
      BY <1>2, <2>1, <2>2, <3>1, <3>2 DEF Separate
  <2>4. phase' = "encoding" /\ outcome' = "none" /\ phase = "encoding"
    BY <1>4 DEF EncodeTensor, JInv
  <2> QED
    BY <1>4, <2>2, <2>3, <2>4 DEF EncodeTensor, JInv, PythonIsUnderstood
<1>5. ASSUME NEW k \in Key, ObserveText(k) PROVE JInv'
  <2>1. Described(obs', given)
    BY <1>1, <1>2, <1>5, TextDescribed DEF ObserveText
  <2>2. phase' = "building" /\ outcome' = "none"
    BY <1>5 DEF ObserveText, JInv
  <2> QED
    BY <1>5, <2>1, <2>2 DEF ObserveText, JInv, PythonIsUnderstood
<1>6. CASE Send
  BY <1>6 DEF Send, JInv, PythonIsUnderstood
<1>7. CASE Decode
  <2>1. \A i \in DOMAIN obs.tensors :
          /\ i \in DOMAIN given /\ obs.tensors[i].dtype = given[i].dtype
          /\ obs.tensors[i].byte_offset + obs.tensors[i].byte_length <= Len(obs.payload)
          /\ obs.tensors[i].byte_length = Len(given[i].data) /\ given[i].data \in Seq(Byte)
    BY <1>1, <1>2, FrameHolds DEF Described
  <2>2. sdk = "python" => \A i \in DOMAIN given : given[i].dtype # Unspecified
    BY DEF JInv, Sound, HasDType, DType, NumpyType, Unspecified
  <2>3. ASSUME NEW i \in DOMAIN obs.tensors, ~ InPayload(obs, obs.tensors[i])
        PROVE  given[i].data = <<>>
    <3>1. Len(given[i].data) = 0
      BY <2>1, <2>3 DEF InPayload
    <3> QED
      BY <2>1, <3>1, EmptySeq
  <2>4. PythonIsUnderstood'
    <3>1. CASE ~ named /\ End("observation_error")
      BY <1>7, <3>1 DEF Decode, End, PythonIsUnderstood
    <3>2. CASE /\ \E d \in {obs.tensors[i] : i \in DOMAIN obs.tensors} : d.dtype = Unspecified
               /\ End("loop_error")
      BY <1>7, <2>1, <2>2, <3>2 DEF Decode, End, PythonIsUnderstood
    <3>3. CASE /\ \E d \in {obs.tensors[i] : i \in DOMAIN obs.tensors} : ~ InPayload(obs, d)
               /\ End("observation_error")
      BY <1>7, <2>1, <2>3, <3>3 DEF Decode, End, PythonIsUnderstood
    <3>4. CASE phase' = "queued" /\ UNCHANGED outcome
      BY <1>7, <3>4 DEF Decode, JInv, PythonIsUnderstood
    <3> QED
      BY <1>7, <3>1, <3>2, <3>3, <3>4 DEF Decode
  <2>5. /\ phase = "sent" /\ phase' \in {"queued", "done"} /\ outcome = "none"
        /\ outcome' \in {"none", "observation_error", "loop_error"}
        /\ outcome' # "none" => phase' = "done"
    BY <1>7 DEF Decode, End, JInv
  <2> QED
    BY <1>7, <2>4, <2>5 DEF Decode, JInv
<1>8. CASE Reconstruct
  <2>1. ASSUME sdk = "python", NEW i \in DOMAIN obs.tensors PROVE Readable(obs, obs.tensors[i])
    <3>1. /\ i \in DOMAIN given /\ obs.tensors[i].dtype = given[i].dtype
          /\ Slice(obs, obs.tensors[i]) = given[i].data /\ obs.tensors[i].elems = given[i].elems
      BY <1>1, <1>2, FrameHolds DEF Described
    <3>2. Len(given[i].data) = given[i].elems * ItemSize(given[i].dtype)
      BY <2>1, <3>1 DEF JInv, Sound, IsNdarray
    <3> QED
      BY <3>1, <3>2 DEF Readable
  <2>2. outcome = "none" /\ phase = "queued"
    BY <1>8 DEF Reconstruct, JInv
  <2>3. CASE input' = ToDict(obs, DOMAIN obs.tensors) /\ phase' = "called" /\ UNCHANGED outcome
    <3>1. DOMAIN input' \subseteq Key
      BY <1>1, <2>3, ToDictKeys
    <3> QED
      BY <1>8, <2>2, <2>3, <3>1 DEF Reconstruct, JInv, PythonIsUnderstood
  <2>4. CASE /\ \E i \in DOMAIN obs.tensors : ~ Readable(obs, obs.tensors[i])
             /\ End("dispatch_raised") /\ UNCHANGED input
    <3>1. sdk # "python"
      BY <2>1, <2>4
    <3> QED
      BY <1>8, <2>2, <2>4, <3>1 DEF Reconstruct, End, JInv, PythonIsUnderstood
  <2> QED
    BY <1>8, <2>3, <2>4 DEF Reconstruct
<1>9. CASE ModelReturns
  <2>1. PICK K \in SUBSET Key : resp' = [Empty EXCEPT !.metadata = K]
    BY <1>9 DEF ModelReturns
  <2>2. returned = <<>> /\ UNCHANGED <<returned, given, obs, input, output, outcome, sdk, named>>
        /\ phase = "called" /\ phase' = "encoding"
    BY <1>9 DEF ModelReturns, IInv
  <2>3. Described(resp', returned') /\ Separate(resp', returned')
    BY <2>2, EmptyDescribed DEF Described, Separate
  <2> QED
    BY <2>2, <2>3 DEF JInv, PythonIsUnderstood
<1>10. CASE InferenceFails
  <2>1. Described(resp', returned') /\ Separate(resp', returned') /\ DOMAIN input' \subseteq Key
    BY <1>10, EmptyDescribed DEF InferenceFails
  <2>2. /\ phase \in {"called", "encoding"} /\ outcome = "none"
        /\ \/ phase' = "queued" /\ outcome' = "none"
           \/ phase' = "done" /\ outcome' = "dispatch_error"
        /\ UNCHANGED <<sdk, named, given, obs, output>>
    BY <1>10 DEF InferenceFails, End, JInv
  <2> QED
    BY <2>1, <2>2 DEF JInv, PythonIsUnderstood
<1>11. CASE Answer
  BY <1>11 DEF Answer, JInv, PythonIsUnderstood
<1>12. CASE ParseResponse
  <2>1. output' = ToDict(resp, Shown(resp)) /\ DOMAIN output' \subseteq Key
    BY <1>1, <1>12, ToDictKeys DEF ParseResponse, Shown
  <2>2. phase' = "done" /\ outcome' = "result"
    BY <1>12 DEF ParseResponse, End
  <2> QED
    BY <1>12, <2>1, <2>2 DEF ParseResponse, JInv, PythonIsUnderstood
<1>13. CASE UNCHANGED vars
  BY <1>13 DEF vars, JInv, PythonIsUnderstood
<1> QED
  BY <1>3, <1>4, <1>5, <1>6, <1>7, <1>8, <1>9, <1>10, <1>11, <1>12, <1>13 DEF Next

LEMMA JInvAlways == Spec => []JInv
BY InitJInv, NextJInv, IInvAlways, PTL DEF Spec

-----------------------------------------------------------------------------
(* Theorems.                                                                 *)

(* Whatever arrays, names and texts are written, and however many: each      *)
(* descriptor of an observation and of a response names the bytes of its own *)
(* tensor, which lie inside the payload (client.py:41-61, client.rs:209-248, *)
(* client.cpp:141-158, dispatch/base.py:82-112).                             *)
THEOREM SlicesAlwaysMatch == Spec => []SlicesMatch
<1>1. IInv => SlicesMatch
  BY DEF IInv
<1> QED
  BY IInvAlways, <1>1, PTL

(* The values of the variables, in every state.                              *)
THEOREM TypeCorrect == Spec => []TypeOK
<1>1. IInv /\ JInv => TypeOK
  BY DEF IInv, JInv, TypeOK
<1> QED
  BY IInvAlways, JInvAlways, <1>1, PTL

(* What the Python SDK writes, validate_slots, dtype_to_numpy and            *)
(* _reconstruct_numpy read, empty arrays and missing ids apart.              *)
THEOREM PythonAlwaysUnderstood == Spec => []PythonIsUnderstood
<1>1. JInv => PythonIsUnderstood
  BY DEF JInv
<1> QED
  BY JInvAlways, <1>1, PTL

(* The model is called with the arrays given to observe(), also by a retry.  *)
THEOREM ModelAlwaysSees == Spec => []ModelSeesObservation
<1>1. IInv /\ JInv => ModelSeesObservation
  <2> SUFFICES ASSUME IInv, JInv, phase \in {"called", "encoding", "answered"}
               PROVE  /\ DOMAIN input = obs.metadata \union {given[i].key : i \in DOMAIN given}
                      /\ \A k \in DOMAIN input \ obs.metadata : Shows(input, LastOf(given, k))
    BY DEF ModelSeesObservation
  <2>1. /\ given \in Seq(Array) /\ obs \in Frame /\ Holds(obs, given) /\ Described(obs, given)
        /\ input = ToDict(obs, DOMAIN obs.tensors)
    BY DEF IInv, JInv, SlicesMatch
  <2>2. /\ DOMAIN obs.tensors = DOMAIN given
        /\ \A i \in DOMAIN given : obs.tensors[i].key = given[i].key /\ given[i].key \in Key
    BY <2>1, FrameHolds DEF Described
  <2>3. DOMAIN input = obs.metadata \union {given[i].key : i \in DOMAIN given}
    <3>1. DOMAIN input
            = obs.metadata \union {k \in Key : \E i \in DOMAIN given : obs.tensors[i].key = k}
      <4> DEFINE I == DOMAIN obs.tensors
      <4>1. DOMAIN ToDict(obs, I)
              = obs.metadata \union {k \in Key : \E i \in I : obs.tensors[i].key = k}
        BY <2>1, ToDictKeys
      <4> QED
        BY <2>1, <2>2, <4>1
    <3>2. {k \in Key : \E i \in DOMAIN given : obs.tensors[i].key = k}
            = {given[i].key : i \in DOMAIN given}
      BY <2>2
    <3> QED
      BY <3>1, <3>2
  <2>4. ASSUME NEW k \in DOMAIN input, k \notin obs.metadata PROVE Shows(input, LastOf(given, k))
    <3>1. PICK q \in DOMAIN given : given[q].key = k
      BY <2>3, <2>4
    <3>2. Shows(input, given[Latest(given, DOMAIN given, k)])
      BY <2>1, <2>2, <2>4, <3>1, DictShows
    <3>3. LastOf(given, k) = given[Latest(given, DOMAIN given, k)]
      BY DEF LastOf, Latest
    <3> QED
      BY <3>2, <3>3
  <2> QED
    BY <2>3, <2>4
<1> QED
  BY IInvAlways, JInvAlways, <1>1, PTL

(* get_result() shows every array that is not empty, and no other.           *)
THEOREM ClientAlwaysSees == Spec => []ClientSeesResult
<1>1. IInv /\ JInv => ClientSeesResult
  <2> DEFINE seen == {i \in DOMAIN returned : returned[i].data # <<>>}
  <2> SUFFICES ASSUME IInv, JInv, outcome = "result"
               PROVE  /\ DOMAIN output = resp.metadata \union {returned[i].key : i \in seen}
                      /\ \A i \in seen : Shows(output, returned[i])
    BY DEF ClientSeesResult
  <2>1. /\ returned \in Seq(Array) /\ resp \in Frame /\ Holds(resp, returned)
        /\ Described(resp, returned) /\ Separate(resp, returned)
        /\ output = ToDict(resp, Shown(resp))
    BY DEF IInv, JInv, SlicesMatch
  <2>2. /\ DOMAIN resp.tensors = DOMAIN returned
        /\ \A i \in DOMAIN returned :
             /\ resp.tensors[i].key = returned[i].key /\ returned[i].key \in Key
             /\ resp.tensors[i].dtype = returned[i].dtype
             /\ resp.tensors[i].byte_length = Len(returned[i].data)
             /\ returned[i].data \in Seq(Byte) /\ Len(returned[i].data) \in Nat
    BY <2>1, FrameHolds DEF Described
  <2>3. \A i \in DOMAIN returned : returned[i].dtype # Unspecified
    BY <2>1 DEF Separate, Sound, HasDType, DType, NumpyType, Unspecified
  <2>4. Shown(resp) = seen
    <3>1. ASSUME NEW i \in DOMAIN returned PROVE IsShown(resp.tensors[i]) <=> returned[i].data # <<>>
      <4>1. Len(returned[i].data) > 0 <=> returned[i].data # <<>>
        BY <2>2, EmptySeq
      <4> QED
        BY <2>2, <2>3, <4>1 DEF IsShown
    <3> QED
      BY <2>2, <3>1 DEF Shown
  <2>5. seen \in SUBSET (DOMAIN returned)
    OBVIOUS
  <2> HIDE DEF seen
  <2>6. DOMAIN output = resp.metadata \union {returned[i].key : i \in seen}
    <3>1. DOMAIN output = resp.metadata \union {k \in Key : \E i \in seen : resp.tensors[i].key = k}
      <4>1. DOMAIN ToDict(resp, seen)
              = resp.metadata \union {k \in Key : \E i \in seen : resp.tensors[i].key = k}
        BY <2>1, ToDictKeys
      <4> QED
        BY <2>1, <2>4, <4>1
    <3>2. {k \in Key : \E i \in seen : resp.tensors[i].key = k} = {returned[i].key : i \in seen}
      BY <2>2, <2>5
    <3> QED
      BY <3>1, <3>2
  <2>7. ASSUME NEW q \in seen PROVE Shows(output, returned[q])
    <3> DEFINE p == Latest(returned, seen, returned[q].key)
    <3>1. returned[q].key \notin resp.metadata
      BY <2>1, <2>5 DEF Separate
    <3>2. p \in seen /\ returned[p].key = returned[q].key /\ Shows(output, returned[p])
      BY <2>1, <2>4, <2>5, <3>1, DictShows
    <3> HIDE DEF p
    <3>3. p = q
      BY <2>1, <2>5, <3>2 DEF Separate
    <3> QED
      BY <3>2, <3>3
  <2> QED
    BY <2>6, <2>7
<1> QED
  BY IInvAlways, JInvAlways, <1>1, PTL

=============================================================================
