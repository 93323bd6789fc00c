-------------------------------- MODULE Rpc --------------------------------
(***************************************************************************)
(* golioth_rpc.c: the table of methods, to which tasks of the application  *)
(* add entries without a lock, and on_rpc, which the coap task runs for    *)
(* each call and which reads the table meanwhile.                          *)
(*                                                                         *)
(* A payload that is no call (no JSON, no id, method or params) is         *)
(* ignored: it is no step.  _num_rpcs++ is a read and a write, and the     *)
(* comparison after it may use either the value written or a new read.     *)
(* The stores of the entry and of the count are plain ones; they are taken *)
(* to be seen by the other task in the order of the program.               *)
(***************************************************************************)
EXTENDS CallbackQueue

CONSTANTS
  Registrar,    \* tasks that register methods
  Method,       \* names of methods
  NoMethod,     \* an entry that was never written
  MaxMethods    \* CONFIG_GOLIOTH_RPC_MAX_NUM_METHODS

ASSUME RpcAssumption == NoMethod \notin Method /\ MaxMethods \in Nat \ {0}

VARIABLES
  \* golioth_rpc_register, per task
  rpc,       \* its place in the code
  name,      \* the method it registers
  entry,     \* the index of the entry it writes
  count,     \* the value of _num_rpcs that it read
  \* RAM
  table,     \* _rpcs[i].method, with its callback and argument
  num,       \* _num_rpcs
  rpcObserved,
  \* on_rpc
  call,      \* the method that is called
  index,     \* i
  \* history
  registered,   \* methods whose registration returned GOLIOTH_OK
  known,        \* those of them when the call began
  overlapped,   \* two registrations were under way at once
  rpcRefused,   \* a request to observe the path was refused
  wild,         \* on_rpc compared with an entry that was not written
  missed        \* a registered method was reported to be unavailable

registerVars == <<rpc, name, entry, count>>
onRpcVars == <<call, index, known>>
rpcVars == <<registerVars, table, num, rpcObserved, onRpcVars, registered, overlapped,
             rpcRefused, wild, missed>>

Index == 0..MaxMethods - 1

RpcTypeOK ==
  /\ rpc \in [Registrar -> {"out", "write", "read", "count", "check"}]
  /\ name \in [Registrar -> Method \cup {NoMethod}]
  /\ \A t \in Registrar : rpc[t] # "out" => name[t] \in Method
  /\ entry \in [Registrar -> Index]
  /\ count \in [Registrar -> Nat]
  /\ table \in [Index -> Method \cup {NoMethod}]
  /\ num \in Nat    \* registrations that overlap can make it exceed the table
  /\ rpcObserved \in BOOLEAN
  /\ call \in Method \cup {NoMethod}
  /\ index \in Nat
  /\ registered \subseteq Method
  /\ known \subseteq Method
  /\ overlapped \in BOOLEAN
  /\ rpcRefused \in BOOLEAN
  /\ wild \in BOOLEAN
  /\ missed \in BOOLEAN

RpcBoot ==
  [rpc |-> [t \in Registrar |-> "out"],
   name |-> [t \in Registrar |-> NoMethod],
   zero |-> [t \in Registrar |-> 0],
   table |-> [i \in Index |-> NoMethod]]

RpcInit ==
  /\ rpc = RpcBoot.rpc
  /\ name = RpcBoot.name
  /\ entry = RpcBoot.zero
  /\ count = RpcBoot.zero
  /\ table = RpcBoot.table
  /\ num = 0
  /\ rpcObserved = FALSE
  /\ call = NoMethod
  /\ index = 0
  /\ registered = {}
  /\ known = {}
  /\ overlapped = FALSE
  /\ rpcRefused = FALSE
  /\ wild = FALSE
  /\ missed = FALSE

-----------------------------------------------------------------------------
(* golioth_rpc_register. *)

Move(t, from, to) == rpc[t] = from /\ rpc' = [rpc EXCEPT ![t] = to]

\* There is room in the table (otherwise GOLIOTH_ERR_MEM_ALLOC: no step): the
\* next entry is chosen. A method may be registered again: the first entry serves it.
Register(t, m) ==
  /\ num < MaxMethods
  /\ Move(t, "out", "write")
  /\ name' = [name EXCEPT ![t] = m]
  /\ entry' = [entry EXCEPT ![t] = num]
  /\ overlapped' = (overlapped \/ \E u \in Registrar : rpc[u] # "out")
  /\ UNCHANGED <<queueVars, count, table, num, rpcObserved, onRpcVars, registered,
                 rpcRefused, wild, missed>>

WriteEntry(t) ==
  /\ Move(t, "write", "read")
  /\ table' = [table EXCEPT ![entry[t]] = name[t]]
  /\ UNCHANGED <<queueVars, name, entry, count, num, rpcObserved, onRpcVars, registered,
                 overlapped, rpcRefused, wild, missed>>

ReadCount(t) ==
  /\ Move(t, "read", "count")
  /\ count' = [count EXCEPT ![t] = num]
  /\ UNCHANGED <<queueVars, name, entry, table, num, rpcObserved, onRpcVars, registered,
                 overlapped, rpcRefused, wild, missed>>

WriteCount(t) ==
  /\ Move(t, "count", "check")
  /\ num' = count[t] + 1
  /\ UNCHANGED <<queueVars, name, entry, count, table, rpcObserved, onRpcVars, registered,
                 overlapped, rpcRefused, wild, missed>>

CheckCountIn(t, values) ==
  /\ Move(t, "check", "out")
  /\ \E seen \in values :
       IF seen = 1
         THEN \E ok \in Tries :
                /\ Put(ok)
                /\ rpcObserved' = (rpcObserved \/ ok)
                /\ rpcRefused' = (rpcRefused \/ ~ok)
                /\ registered' = IF ok THEN registered \cup {name[t]} ELSE registered
         ELSE /\ registered' = registered \cup {name[t]}
              /\ UNCHANGED <<free, rpcObserved, rpcRefused>>
  /\ name' = [name EXCEPT ![t] = NoMethod]
  /\ entry' = [entry EXCEPT ![t] = 0]
  /\ count' = [count EXCEPT ![t] = 0]
  /\ UNCHANGED <<handler, table, num, onRpcVars, overlapped, wild, missed>>

\* Mutant: the count of before is compared.
CheckOldCount(t) == CheckCountIn(t, {count[t]})

\* The first registration observes the path, and fails if that is refused; the
\* others return GOLIOTH_OK.
CheckCount(t) == CheckCountIn(t, {count[t] + 1, num})

-----------------------------------------------------------------------------
(* on_rpc. *)

OnRpc(m) ==
  /\ rpcObserved
  /\ Enter("rpc")
  /\ call' = m
  /\ index' = 0
  /\ known' = registered
  /\ UNCHANGED <<free, registerVars, table, num, rpcObserved, registered, overlapped,
                 rpcRefused, wild, missed>>

\* Mutant: the loop runs while i <= _num_rpcs.
CompareOneMore ==
  /\ handler = "rpc"
  /\ index <= num
  /\ index \in Index => table[index] # call
  /\ index' = index + 1
  /\ wild' = (wild \/ index \notin Index \/ table[index] = NoMethod)
  /\ UNCHANGED <<queueVars, registerVars, table, num, rpcObserved, call, known, registered,
                 overlapped, rpcRefused, missed>>

\* The next entry is not the one: a comparison with an entry that was never
\* written is a read through a null pointer.
Compare ==
  /\ handler = "rpc"
  /\ index < num
  /\ index \in Index => table[index] # call
  /\ index' = index + 1
  /\ wild' = (wild \/ index \notin Index \/ table[index] = NoMethod)
  /\ UNCHANGED <<queueVars, registerVars, table, num, rpcObserved, call, known, registered,
                 overlapped, rpcRefused, missed>>

\* Mutant: the answer waits for a place in the queue.
AckWaits ==
  /\ Leave("rpc")
  /\ free > 0
  /\ free' = free - 1
  /\ call' = NoMethod
  /\ index' = 0
  /\ known' = {}
  /\ UNCHANGED <<registerVars, table, num, rpcObserved, registered, overlapped, rpcRefused,
                 wild>>

\* golioth_rpc_ack_internal: when it is refused the answer is lost.
Ack ==
  /\ Leave("rpc")
  /\ \E ok \in Tries : Put(ok)
  /\ call' = NoMethod
  /\ index' = 0
  /\ known' = {}
  /\ UNCHANGED <<registerVars, table, num, rpcObserved, registered, overlapped, rpcRefused,
                 wild>>

\* The method is found: its callback is called.
Dispatch ==
  /\ handler = "rpc"
  /\ index < num
  /\ index \in Index
  /\ table[index] = call
  /\ Ack
  /\ missed' = missed

\* Mutant: the last entry is not looked at.
UnavailableBeforeLast ==
  /\ handler = "rpc"
  /\ index >= num - 1
  /\ Ack
  /\ missed' = (missed \/ call \in known)

\* It is not: RPC_UNAVAILABLE.
Unavailable ==
  /\ handler = "rpc"
  /\ index >= num
  /\ Ack
  /\ missed' = (missed \/ call \in known)

ResetRpc ==
  /\ rpc' = RpcBoot.rpc
  /\ name' = RpcBoot.name
  /\ entry' = RpcBoot.zero
  /\ count' = RpcBoot.zero
  /\ table' = RpcBoot.table
  /\ num' = 0
  /\ rpcObserved' = FALSE
  /\ call' = NoMethod
  /\ index' = 0
  /\ registered' = {}
  /\ known' = {}
  /\ overlapped' = FALSE
  /\ rpcRefused' = FALSE
  /\ wild' = FALSE
  /\ missed' = FALSE

RpcNext ==
  \/ \E t \in Registrar :
       \/ \E m \in Method : Register(t, m)
       \/ WriteEntry(t) \/ ReadCount(t) \/ WriteCount(t) \/ CheckCount(t)
  \/ \E m \in Method : OnRpc(m)
  \/ Compare \/ Dispatch \/ Unavailable

-----------------------------------------------------------------------------
(* Properties. *)

\* While methods are registered by one task at a time, a call that is handled at the
\* same time never meets an entry that is counted but not written.
DispatchSafe == ~overlapped => ~wild

\* ... and a method whose registration has returned GOLIOTH_OK is never reported as
\* unavailable.
RegisteredIsServed == ~overlapped => ~missed

\* When nothing is being registered and there are methods, the path is observed, unless
\* that was refused at the first registration, whatever the later ones returned.
MethodsObserved ==
  num > 0 /\ (\A t \in Registrar : rpc[t] = "out") =>
    rpcObserved \/ rpcRefused \/ overlapped

-----------------------------------------------------------------------------
(* The inductive invariant behind them, of registrations that do not overlap. *)

Registering(t) == rpc[t] # "out"

\* One task at a time registers, and _num_rpcs and its entry agree.
RegisterInv ==
  /\ \A t, u \in Registrar : Registering(t) /\ Registering(u) => t = u
  /\ \A t \in Registrar :
       /\ rpc[t] \in {"write", "read", "count"} => entry[t] = num
       /\ rpc[t] \in {"read", "count", "check"} => table[entry[t]] = name[t]
       /\ rpc[t] = "count" => count[t] = num
       /\ rpc[t] = "check" => num = entry[t] + 1 /\ num = count[t] + 1

\* The entries that are counted are written, and are where the methods are.
TableInv ==
  /\ num <= MaxMethods
  /\ \A i \in Index : i < num => table[i] # NoMethod
  /\ \A m \in registered : \E i \in Index : i < num /\ table[i] = m

\* on_rpc has passed no entry of the method that is called.
LoopInv ==
  handler = "rpc" =>
    /\ call \in Method
    /\ known \subseteq registered
    /\ index <= num
    /\ \A i \in Index : i < index => table[i] # call

\* The path is not observed, and that was not refused, only during the first
\* registration.
FirstInv ==
  num > 0 /\ ~rpcObserved /\ ~rpcRefused =>
    num = 1 /\ \E t \in Registrar : rpc[t] = "check"

RpcInv ==
  ~overlapped => RegisterInv /\ TableInv /\ LoopInv /\ FirstInv /\ ~wild /\ ~missed
=============================================================================
