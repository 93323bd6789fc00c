------------------------------ MODULE LightDb ------------------------------
(***************************************************************************)
(* golioth_lightdb.c and golioth_log.c over the request path: each of      *)
(* their functions is one call of golioth_coap_client.c, and a synchronous *)
(* getter keeps a lightdb_get_response_t on its stack, to which the coap   *)
(* task writes through on_payload.                                         *)
(*                                                                         *)
(* Payloads are reduced to what on_payload tells apart; the path prefixes  *)
(* (state, stream, logs) go to the server.  A wrapper that fails before it *)
(* calls the client (no memory for the quotes of a string, a log record    *)
(* that does not fit into its buffer) returns GOLIOTH_ERR_MEM_ALLOC or     *)
(* GOLIOTH_ERR_SERIALIZE and changes nothing: it is no step.               *)
(***************************************************************************)
EXTENDS CoapRequests

VARIABLES
  isNull,   \* response.is_null in the frame of a synchronous getter
  value,    \* whether its caller's variable has been written
  result,   \* the status the getter returned
  crashed,  \* an assertion of a conversion has failed
  \* history
  got,      \* what on_payload was called with: a null or a value
  strayed   \* what on_payload wrote after the getter had returned

frameVars == <<isNull, value, result, crashed, got, strayed>>
ldbVars == <<vars, frameVars>>

\* What the conversions make of a payload: null or empty, a value of the type
\* that is asked for, or more characters than a number can have.
Data == {"null", "value", "long"}

Target == {"unset", "set"}

LdbTypeOK ==
  /\ isNull \in [Request -> BOOLEAN]
  /\ value \in [Request -> Target]
  /\ result \in [Request -> Result \cup {"NULL"}]
  /\ crashed \in BOOLEAN
  /\ got \in [Request -> {"none", "null", "value"}]
  /\ strayed \subseteq Request \X Target

LdbInit ==
  /\ Init
  /\ isNull = [r \in Request |-> FALSE]
  /\ value = [r \in Request |-> "unset"]
  /\ result = [r \in Request |-> "none"]
  /\ crashed = FALSE
  /\ got = [r \in Request |-> "none"]
  /\ strayed = {}

Getter(r) == type[r] = "GET" /\ sync[r]

-----------------------------------------------------------------------------
(* The wrappers, up to the call they make.  All of them leave the frame of a *)
(* getter alone but GetSync, which initialises it.                           *)

\* set_int, set_bool, set_float and set_string: what they send is never empty.
SetInternal(r, s, tmo) ==
  s \in SyncChoice /\ PayloadSize \ {0} # {} /\ Begin(r, "POST", s, tmo, TRUE)

\* set_json sends what it is given.
SetJsonInternal(r, s, tmo) ==
  s \in SyncChoice /\ \E size \in PayloadSize : Begin(r, "POST", s, tmo, size > 0)

\* get_internal and delete_internal.
PlainInternal(r, op, s, tmo) == s \in SyncChoice /\ Begin(r, op, s, tmo, FALSE)

\* golioth_lightdb_*_async.
StateAsync(r) ==
  \/ SetInternal(r, FALSE, Forever)
  \/ SetJsonInternal(r, FALSE, Forever)
  \/ \E op \in {"GET", "DELETE"} : PlainInternal(r, op, FALSE, Forever)
  \/ ObserveAsync(r)

\* golioth_lightdb_set_*_sync and golioth_lightdb_delete_sync.
StateSync(r) ==
  \E tmo \in Waits(TRUE), op \in {"POST", "DELETE"} :
    IF op = "DELETE" THEN PlainInternal(r, op, TRUE, tmo)
    ELSE SetInternal(r, TRUE, tmo) \/ SetJsonInternal(r, TRUE, tmo)

\* golioth_lightdb_stream_set_*.
StreamSetAsync(r) == SetInternal(r, FALSE, Forever) \/ SetJsonInternal(r, FALSE, Forever)

StreamSetSync(r) ==
  \E tmo \in Waits(TRUE) : SetInternal(r, TRUE, tmo) \/ SetJsonInternal(r, TRUE, tmo)

\* A log record is never empty.
LogInternal(r, s, tmo) ==
  s \in SyncChoice /\ PayloadSize \ {0} # {} /\ Begin(r, "POST", s, tmo, TRUE)

Log(r) == \E s \in BOOLEAN : \E tmo \in Waits(s) : LogInternal(r, s, tmo)

Wrapper(r) ==
  /\ StateAsync(r) \/ StateSync(r) \/ StreamSetAsync(r) \/ StreamSetSync(r) \/ Log(r)
  /\ UNCHANGED frameVars

\* Mutant: the frame holds what was on the stack.
GetSyncUninitialised(r) ==
  /\ \E tmo \in Waits(TRUE) : PlainInternal(r, "GET", TRUE, tmo)
  /\ \E b \in BOOLEAN : isNull' = [isNull EXCEPT ![r] = b]
  /\ value' = [value EXCEPT ![r] = "unset"]
  /\ UNCHANGED <<result, crashed, got, strayed>>

\* golioth_lightdb_get_int_sync and its like: response = { .type, .i }.
GetSync(r) ==
  /\ \E tmo \in Waits(TRUE) : PlainInternal(r, "GET", TRUE, tmo)
  /\ isNull' = [isNull EXCEPT ![r] = FALSE]
  /\ value' = [value EXCEPT ![r] = "unset"]
  /\ UNCHANGED <<result, crashed, got, strayed>>

\* What they do when golioth_lightdb_get_internal has returned.
ReturnGet(r) ==
  /\ Getter(r)
  /\ cpc[r] = "returned"
  /\ result[r] = "none"
  /\ result' = [result EXCEPT ![r] =
                  IF ret[r] = "OK" /\ isNull[r] THEN "NULL" ELSE ret[r]]
  /\ UNCHANGED <<vars, isNull, value, crashed, got, strayed>>

RecycleCall(r) ==
  /\ Recycle(r)
  /\ Getter(r) => result[r] # "none"
  /\ isNull' = [isNull EXCEPT ![r] = FALSE]
  /\ value' = [value EXCEPT ![r] = "unset"]
  /\ result' = [result EXCEPT ![r] = "none"]
  /\ got' = [got EXCEPT ![r] = "none"]
  /\ strayed' = {w \in strayed : w[1] # r}
  /\ UNCHANGED crashed

-----------------------------------------------------------------------------
(* The coap task. *)

\* A write through the argument of on_payload: into the frame, or into whatever
\* is where the frame was.
WriteNull(r) ==
  /\ IF result[r] = "none"
       THEN isNull' = [isNull EXCEPT ![r] = TRUE] /\ strayed' = strayed
       ELSE isNull' = isNull /\ strayed' = strayed \cup {<<r, "unset">>}
  /\ UNCHANGED <<value, crashed>>

WriteValue(r) ==
  /\ IF result[r] = "none"
       THEN value' = [value EXCEPT ![r] = "set"] /\ strayed' = strayed
       ELSE value' = value /\ strayed' = strayed \cup {<<r, "set">>}
  /\ UNCHANGED <<isNull, crashed>>

\* assert(payload_size <= sizeof(value)) fails.
ConversionAsserts == crashed' = TRUE /\ UNCHANGED <<isNull, value, strayed>>

Kind(data) == IF data = "long" THEN "value" ELSE data

\* Mutant: a null is not noted.
OnPayloadNullIgnored(r, status, data) ==
  /\ got' = [got EXCEPT ![r] = Kind(data)]
  /\ \/ status # "OK" /\ WriteNull(r)
     \/ status = "OK" /\ data = "null" /\ UNCHANGED <<isNull, value, crashed, strayed>>
     \/ status = "OK" /\ data # "null" /\ WriteValue(r)
     \/ status = "OK" /\ data = "long" /\ ConversionAsserts

\* on_payload; a long payload is cut by a string getter, read as a Boolean, or
\* fails the assertion of a number's conversion.
OnPayload(r, status, data) ==
  /\ got' = [got EXCEPT ![r] = Kind(data)]
  /\ \/ (status # "OK" \/ data = "null") /\ WriteNull(r)
     \/ status = "OK" /\ data # "null" /\ WriteValue(r)
     \/ status = "OK" /\ data = "long" /\ ConversionAsserts

\* The response handler calls on_payload for the getter that is pending.
ReceiveCall(r, class) ==
  /\ Receive(r, class)
  /\ IF Pending /\ TokenMatches(r) /\ Getter(cur) /\ age[cur] # 0
       THEN UNCHANGED result /\ \E data \in Data : OnPayload(cur, StatusOf(class), data)
       ELSE UNCHANGED frameVars

\* coap_io_loop_once calls it when the time is up.
TimeoutCall ==
  /\ FinishTimeout
  /\ IF Getter(cur)
       THEN UNCHANGED result /\ OnPayload(cur, "TIMEOUT", got[cur])
       ELSE UNCHANGED frameVars

QuietTask ==
  /\ \/ AgeOut \/ Send \/ AssertFails \/ IoFails \/ IoDone \/ TakeAck
     \/ FinishIoError \/ FinishOk
  /\ UNCHANGED frameVars

LdbCaller(r) ==
  \/ Wrapper(r) \/ GetSync(r) \/ ReturnGet(r) \/ RecycleCall(r)
  \/ (Empty(r) \/ CallerStep(r)) /\ UNCHANGED frameVars

LdbTask ==
  \/ QuietTask \/ TimeoutCall
  \/ \E r \in Request, class \in Class : ReceiveCall(r, class)

LdbStep ==
  \/ \E r \in Request : LdbCaller(r)
  \/ LdbTask
  \/ Environment /\ UNCHANGED frameVars

\* A failed assertion resets the device: what follows is a new behaviour.
Reset == UNCHANGED ldbVars

LdbNext == IF Live /\ ~crashed THEN LdbStep ELSE Reset

LdbSpec == LdbInit /\ [][LdbNext]_ldbVars

-----------------------------------------------------------------------------
(* Properties. *)

\* The response came after the getter had aged out: on_payload is not called.
TooLate(r) == answer[r] # "none" /\ timeout[r] # Forever /\ got[r] = "none"

\* A getter that says GOLIOTH_ERR_NULL was given a null, was refused, or was told of a
\* timeout after its response.  The last is no cause that golioth_lightdb.h allows, see
\* GetterTruthful: here it is shown to be the only other one.
NullHasCause ==
  \A r \in Request :
    result[r] = "NULL" =>
      got[r] = "null" \/ \E i \in 1..Len(told[r]) : told[r][i] # "OK"

\* A getter that returns GOLIOTH_OK has set its caller's variable, unless its response
\* came too late.  Then the variable is unset although golioth_lightdb.h says that it is
\* populated, see GetterTruthful: here that is shown to be the only such case.
OkValueWritten ==
  \A r \in Request \ misused :
    Getter(r) /\ result[r] = "OK" => value[r] = "set" \/ TooLate(r)

\* A caller that was given a result other than a timeout does not have its
\* variable rewritten afterwards; what it gave the SDK, which may be gone by then,
\* is written again only by a timeout.
StrayWritesBounded ==
  \A w \in strayed :
    LET r == w[1] IN
      IF w[2] = "set" THEN result[r] = "TIMEOUT"
                      ELSE told[r][Len(told[r])] # "OK" \/ got[r] = "null"

-----------------------------------------------------------------------------
(* The inductive invariant behind them, on top of those of CoapRequests. *)

\* A request that the coap task has to handle, or is handling, was not refused.
RetInv == \A r \in Request : r \in Queued \/ cur = r => ret[r] \in {"none", "OK", "TIMEOUT"}

\* What a getter returned is what the client returned, but for a null.
ResultInv ==
  \A r \in Request :
    result[r] # "none" =>
      cpc[r] = "returned" /\ (result[r] = ret[r] \/ (result[r] = "NULL" /\ ret[r] = "OK"))

\* on_payload was called only as the callback of its request, and wrote what it was given.
Cause(r) == got[r] = "null" \/ \E i \in 1..Len(told[r]) : told[r][i] # "OK"
FrameInv ==
  \A r \in Request :
    /\ told[r] = <<>> => got[r] = "none" /\ r \notin {w[1] : w \in strayed}
    /\ isNull[r] => Cause(r)
    /\ Getter(r) /\ answer[r] # "none" /\ result[r] = "none" /\ ~crashed =>
         isNull[r] \/ value[r] = "set" \/ TooLate(r)

LdbInv ==
  RetInv /\ ResultInv /\ FrameInv /\ NullHasCause /\ OkValueWritten /\ StrayWritesBounded

-----------------------------------------------------------------------------
(* What the documentation says and the code does not do. *)

\* GOLIOTH_OK says that the variable was populated, and that the callback of the
\* request was told of its response.
OkPopulates(r) == result[r] = "OK" => value[r] = "set" /\ told[r] # <<>>

\* GOLIOTH_ERR_NULL is not said of a value that was received and stored, and the
\* callback is not told that no response was received after it was told of one.
NullHasNoValue(r) ==
  result[r] = "NULL" => value[r] = "unset" /\ told[r] # <<"OK", "TIMEOUT">>

\* golioth_lightdb.h of the status of a getter, and golioth_client.h of the callback:
\* one of the two sentences at least is true.  A behaviour that violates this shows that
\* neither is.
GetterTruthful ==
  LET getters == {r \in Request \ misused : Getter(r)} IN
  (\A r \in getters : OkPopulates(r)) \/ (\A r \in getters : NullHasNoValue(r))
=============================================================================
