-------------------------------- MODULE Wire --------------------------------
(* The bytes of one observation and of its answer, from the application to   *)
(* the model and back: an SDK writes tensors into a frame (client.py,        *)
(* client.rs, async_client.rs, client.cpp), the server decodes it            *)
(* (observation/), rebuilds arrays, calls the model and writes a frame of    *)
(* its own (dispatch/), and the SDK reads that one.                          *)
(*                                                                           *)
(* A frame is an envelope (tensor descriptors and metadata) and a payload.   *)
(* Here a loop over tensors takes an action for each; the code suspends in   *)
(* none of them.                                                             *)
EXTENDS Naturals, Sequences, FiniteSets

CONSTANTS
  Key,         \* names of tensors and of metadata entries
  Byte,
  Array,       \* the arrays applications and models may deal with
  MaxTensors   \* bound: tensors per frame

\* A numpy dtype goes by the name of the DType it maps to; uint16 has none.
DType == {"FLOAT16", "FLOAT32", "FLOAT64", "BFLOAT16", "UINT8", "INT32", "INT64", "BOOL"}
NumpyType == (DType \ {"BFLOAT16"}) \union {"uint16"}
Unspecified == "DTYPE_UNSPECIFIED"

\* elems: product of the shape; swapped: a numpy type of the byte order that is
\* not the machine's, as '>f4' is on most.
ASSUME WireAssumption ==
  /\ MaxTensors \in Nat
  /\ Array \subseteq [key: Key, dtype: DType \union {"uint16", Unspecified},
                      elems: Nat, data: Seq(Byte), swapped: BOOLEAN]

VARIABLES
  sdk,       \* "python", or "native": Rust and C++, whose tensors are raw bytes
  named,     \* client_id and model_id are not empty (the default client_id is)
  phase,     \* how far the exchange is
  given,     \* the arrays the application passed to observe(), in order
  obs,       \* the frame of the observation
  input,     \* the dict the model is called with
  returned,  \* the arrays of the model's result, in order
  resp,      \* the frame of the response
  output,    \* the dict get_result() returns
  outcome    \* how the exchange ended

vars == <<sdk, named, phase, given, obs, input, returned, resp, output, outcome>>

Descriptor == [key: Key, dtype: DType \union {Unspecified}, elems: Nat,
               byte_offset: Nat, byte_length: Nat]
Frame == [tensors: Seq(Descriptor), metadata: SUBSET Key, payload: Seq(Byte), offset: Nat]

Empty == [tensors |-> <<>>, metadata |-> {}, payload |-> <<>>, offset |-> 0]

TypeOK ==
  /\ sdk \in {"python", "native"} /\ named \in BOOLEAN
  /\ phase \in {"building", "sent", "queued", "called", "encoding", "answered", "done"}
  /\ given \in Seq(Array) /\ returned \in Seq(Array)
  /\ obs \in Frame /\ resp \in Frame
  /\ DOMAIN input \subseteq Key /\ DOMAIN output \subseteq Key
  /\ outcome \in {"none", "observation_error", "loop_error", "dispatch_raised",
                  "dispatch_error", "result"}

Init ==
  /\ sdk \in {"python", "native"} /\ named \in BOOLEAN
  /\ phase = "building" /\ outcome = "none"
  /\ given = <<>> /\ returned = <<>>
  /\ obs = Empty /\ resp = Empty
  /\ input = <<>> /\ output = <<>>

-----------------------------------------------------------------------------
(* Data types and slices.                                                    *)

ItemSize(t) ==
  CASE t \in {"UINT8", "BOOL"} -> 1
    [] t \in {"FLOAT16", "BFLOAT16", "uint16"} -> 2
    [] t \in {"FLOAT32", "INT32"} -> 4
    [] t \in {"FLOAT64", "INT64"} -> 8

DtypeToNumpy(t) == IF t = "BFLOAT16" THEN "uint16" ELSE t

HasDType_ofAny(n) == n \in NumpyType

\* What dtype_from_numpy accepts; it raises ValueError for the others.  It goes
\* by np_dtype.name, which does not tell the byte order.
HasDType(n) == n \in DType \intersect NumpyType

\* Arrays numpy can hold: tobytes() gives the bytes of all elements, in the
\* order of their type.
IsNdarray(a) ==
  /\ a.dtype \in NumpyType /\ Len(a.data) = a.elems * ItemSize(a.dtype)
  /\ a.swapped => ItemSize(a.dtype) > 1

\* payload[offset : offset + length] in Python, which stops at the end of the
\* payload.  (Rust and C++ leave a tensor that does not fit without bytes.)
Slice(f, d) ==
  LET end == d.byte_offset + d.byte_length
  IN  SubSeq(f.payload, d.byte_offset + 1, IF end <= Len(f.payload) THEN end ELSE Len(f.payload))

WriteTensor_offsetStays(f, a) ==
  [f EXCEPT !.tensors = Append(@, [key |-> a.key, dtype |-> a.dtype, elems |-> a.elems,
                                   byte_offset |-> f.offset,
                                   byte_length |-> Len(a.data)]),
            !.payload = @ \o a.data]

\* One turn of the loops that write frames, on either side.
WriteTensor(f, a) ==
  [f EXCEPT !.tensors = Append(@, [key |-> a.key, dtype |-> a.dtype, elems |-> a.elems,
                                   byte_offset |-> f.offset,
                                   byte_length |-> Len(a.data)]),
            !.payload = @ \o a.data,
            !.offset = @ + Len(a.data)]

\* frombuffer().reshape() of the slice: raises unless shape and length agree.
Readable(f, d) == Len(Slice(f, d)) = d.elems * ItemSize(d.dtype)

Tensor(f, d) ==
  [dtype |-> DtypeToNumpy(d.dtype), elems |-> d.elems, data |-> Slice(f, d), swapped |-> FALSE]

Text == [dtype |-> "string"]

ToDict_firstWins(f, I) ==
  LET At(k) == {i \in I : f.tensors[i].key = k}
      First(J) == CHOOSE i \in J : \A j \in J : i <= j
  IN  [k \in f.metadata \union {j \in Key : At(j) # {}} |->
         IF k \in f.metadata THEN Text ELSE Tensor(f, f.tensors[First(At(k))])]

\* The dict made of the tensors at the places I of f: of one key the last, and
\* a metadata entry replaces it.
ToDict(f, I) ==
  LET At(k) == {i \in I : f.tensors[i].key = k}
      Last(J) == CHOOSE i \in J : \A j \in J : j <= i
  IN  [k \in f.metadata \union {j \in Key : At(j) # {}} |->
         IF k \in f.metadata THEN Text ELSE Tensor(f, f.tensors[Last(At(k))])]

-----------------------------------------------------------------------------
(* The observation.                                                          *)

\* observe(**kwargs) in Python: ndarrays under distinct names, ValueError and
\* nothing sent if one has no DType; tensor() in Rust and C++: any bytes.
Accepts(a) ==
  \/ /\ sdk = "python"
     /\ IsNdarray(a) /\ HasDType(a.dtype)
     /\ \A i \in DOMAIN given : given[i].key # a.key
     /\ a.key \notin obs.metadata
  \/ sdk = "native" /\ a.dtype # "uint16" /\ ~ a.swapped

ObserveTensor(a) ==
  /\ phase = "building" /\ Len(given) < MaxTensors
  /\ Accepts(a)
  /\ given' = Append(given, a)
  /\ obs' = WriteTensor(obs, a)
  /\ UNCHANGED <<sdk, named, phase, input, returned, resp, output, outcome>>

ObserveText(k) ==
  /\ phase = "building"
  /\ sdk = "python" => \A i \in DOMAIN given : given[i].key # k
  /\ obs' = [obs EXCEPT !.metadata = @ \union {k}]
  /\ UNCHANGED <<sdk, named, phase, given, input, returned, resp, output, outcome>>

Send ==
  /\ phase = "building"
  /\ phase' = "sent"
  /\ UNCHANGED <<sdk, named, given, obs, input, returned, resp, output, outcome>>

End(o) == phase' = "done" /\ outcome' = o

InPayload_strictly(f, d) ==
  d.byte_offset + d.byte_length < Len(f.payload) /\ d.byte_length # 0

\* validate_slots
InPayload(f, d) ==
  d.byte_offset + d.byte_length <= Len(f.payload) /\ d.byte_length # 0

\* decode(): ObservationError is counted; the ValueError of an unknown dtype
\* is left to the receive loop.
Decode ==
  LET Descriptors == {obs.tensors[i] : i \in DOMAIN obs.tensors} IN
  /\ phase = "sent"
  /\ \/ ~ named /\ End("observation_error")
     \/ /\ named
        /\ \E d \in Descriptors : d.dtype = Unspecified
        /\ End("loop_error")
     \/ /\ named
        /\ \A d \in Descriptors : d.dtype # Unspecified
        /\ \E d \in Descriptors : ~ InPayload(obs, d)
        /\ End("observation_error")
     \/ /\ named
        /\ \A d \in Descriptors : d.dtype # Unspecified /\ InPayload(obs, d)
        /\ phase' = "queued" /\ UNCHANGED outcome
  /\ UNCHANGED <<sdk, named, given, obs, input, returned, resp, output>>

-----------------------------------------------------------------------------
(* The dispatch.                                                             *)

Reconstruct_firstWins ==
  /\ phase = "queued"
  /\ \A i \in DOMAIN obs.tensors : Readable(obs, obs.tensors[i])
  /\ input' = ToDict_firstWins(obs, DOMAIN obs.tensors) /\ phase' = "called"
  /\ UNCHANGED <<sdk, named, given, obs, returned, resp, output, outcome>>

\* _reconstruct_numpy: outside the try of both dispatchers, so a tensor it
\* cannot rebuild makes dispatch() raise.
Reconstruct ==
  /\ phase = "queued"
  /\ \/ /\ \A i \in DOMAIN obs.tensors : Readable(obs, obs.tensors[i])
        /\ input' = ToDict(obs, DOMAIN obs.tensors) /\ phase' = "called" /\ UNCHANGED outcome
     \/ /\ \E i \in DOMAIN obs.tensors : ~ Readable(obs, obs.tensors[i])
        /\ End("dispatch_raised") /\ UNCHANGED input
  /\ UNCHANGED <<sdk, named, given, obs, returned, resp, output>>

\* The model returns arrays and strings, an ndarray being one array.
ModelReturns ==
  /\ phase = "called"
  /\ \E K \in SUBSET Key : resp' = [Empty EXCEPT !.metadata = K]
  /\ phase' = "encoding"
  /\ UNCHANGED <<sdk, named, given, obs, input, returned, output, outcome>>

\* _build_result, for an array under a key of its own.
EncodeTensor(a) ==
  /\ phase = "encoding" /\ Len(returned) < MaxTensors
  /\ IsNdarray(a) /\ HasDType(a.dtype)
  /\ a.key \notin resp.metadata
  /\ \A i \in DOMAIN returned : returned[i].key # a.key
  /\ returned' = Append(returned, a)
  /\ resp' = WriteTensor(resp, a)
  /\ UNCHANGED <<sdk, named, phase, given, obs, input, output, outcome>>

\* The model raises, or _build_result does: an array of the result has no
\* DType.  An error result: the request is retried, or given up.
InferenceFails ==
  /\ \/ phase = "called"
     \/ phase = "encoding" /\ \E a \in Array : IsNdarray(a) /\ ~ HasDType(a.dtype)
  /\ returned' = <<>> /\ resp' = Empty /\ input' = <<>>
  /\ \/ phase' = "queued" /\ UNCHANGED outcome
     \/ End("dispatch_error")
  /\ UNCHANGED <<sdk, named, given, obs, output>>

Answer ==
  /\ phase = "encoding"
  /\ phase' = "answered"
  /\ UNCHANGED <<sdk, named, given, obs, input, returned, resp, output, outcome>>

-----------------------------------------------------------------------------
(* get_result().                                                             *)

IsShown_short(d) == d.byte_length > 1 /\ d.dtype # Unspecified

\* Empty tensors are not shown to the application.
IsShown(d) == d.byte_length > 0 /\ d.dtype # Unspecified

ParseResponse ==
  /\ phase = "answered"
  /\ output' = ToDict(resp, {i \in DOMAIN resp.tensors : IsShown(resp.tensors[i])})
  /\ End("result")
  /\ UNCHANGED <<sdk, named, given, obs, input, returned, resp>>

Next ==
  \/ \E a \in Array : ObserveTensor(a) \/ EncodeTensor(a)
  \/ \E k \in Key : ObserveText(k)
  \/ Send \/ Decode \/ Reconstruct \/ ModelReturns \/ InferenceFails \/ Answer
  \/ ParseResponse

Spec == Init /\ [][Next]_vars

-----------------------------------------------------------------------------
(* Properties.                                                               *)

\* f holds exactly the arrays as, each in the slice its descriptor names.
Holds(f, as) ==
  /\ f.offset = Len(f.payload)
  /\ Len(f.tensors) = Len(as)
  /\ \A i \in DOMAIN as :
       /\ f.tensors[i].byte_offset + f.tensors[i].byte_length <= Len(f.payload)
       /\ Slice(f, f.tensors[i]) = as[i].data
       /\ f.tensors[i].dtype = as[i].dtype

(* Five loops in three languages keep an offset by hand next to the payload  *)
(* they append to: whatever is written later, each descriptor goes on naming *)
(* the bytes of its own tensor.                                              *)
SlicesMatch == Holds(obs, given) /\ Holds(resp, returned)

(* The server refuses, or fails to rebuild, no observation of the Python SDK *)
(* but one without a client or model id or with an empty array: what one     *)
(* file writes, four others agree to read.                                   *)
PythonIsUnderstood ==
  sdk = "python" /\ outcome \in {"observation_error", "loop_error", "dispatch_raised"}
    => outcome = "observation_error" /\
       (~ named \/ \E i \in DOMAIN given : given[i].data = <<>>)

\* The last array of as under key k.
LastOf(as, k) ==
  LET I == {i \in DOMAIN as : as[i].key = k}
  IN  as[CHOOSE i \in I : \A j \in I : j <= i]

\* Dict d shows a: the type of its name (of a bfloat16, uint16), as many elements
\* and the same bytes.  They are read in the byte order of the machine: if a's
\* was the other one, d shows other numbers.
Shows(d, a) ==
  d[a.key] = [dtype |-> DtypeToNumpy(a.dtype), elems |-> a.elems, data |-> a.data,
              swapped |-> FALSE]

(* The model is called with the bytes the application observed, under each   *)
(* name the last tensor given and nothing else, also when the call is a      *)
(* retry.  Numbers they are only of an array in the machine's byte order.    *)
ModelSeesObservation ==
  phase \in {"called", "encoding", "answered"} =>
    /\ DOMAIN input = obs.metadata \union {given[i].key : i \in DOMAIN given}
    /\ \A k \in DOMAIN input \ obs.metadata : Shows(input, LastOf(given, k))

(* The application gets the bytes of every array the model returned, save    *)
(* the empty ones, which vanish without an error.                            *)
ClientSeesResult ==
  outcome = "result" =>
    LET seen == {i \in DOMAIN returned : returned[i].data # <<>>} IN
    /\ DOMAIN output = resp.metadata \union {returned[i].key : i \in seen}
    /\ \A i \in seen : Shows(output, returned[i])

=============================================================================
