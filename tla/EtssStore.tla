------------------------------- MODULE EtssStore -------------------------------
(***************************************************************************)
(* What the ETSS flash file system promises to the service above it: an    *)
(* asset store whose calls take effect in one indivisible, durable step.   *)
(* A power failure ends the running call either before or after that step, *)
(* and an acknowledged call is never undone.  EtssFlashFs implements this. *)
(***************************************************************************)
EXTENDS Integers, Sequences

CONSTANTS
    Fid,            \* file ids
    Data,           \* contents an asset can be set to
    None            \* no asset, no running call

VARIABLES
    store,      \* the assets
    call,       \* the running call, None between calls
    done,       \* the running call has taken effect
    reply       \* the outcome of the last call

vars == <<store, call, done, reply>>

Asset == [data : Data, once : BOOLEAN]

Call == [op : {"set"}, fid : Fid, data : Data, once : BOOLEAN]
          \cup [op : {"remove"}, fid : Fid]

ErrorCode == {"not_permitted", "does_not_exist", "failed"}

Init ==
    /\ store = [f \in Fid |-> None]
    /\ call = None
    /\ done = FALSE
    /\ reply = << >>

Request ==
    /\ call = None
    /\ call' \in Call /\ reply' = << >>
    /\ UNCHANGED <<store, done>>

(* An asset created with WRITE_ONCE is neither set again nor removed. *)
WriteOnce(f) == store[f] # None /\ store[f].once

(* The one step in which a call takes effect. *)
Effect ==
    /\ call # None /\ ~done /\ done'
    /\ ~WriteOnce(call.fid)
    /\ call.op = "remove" => store[call.fid] # None
    /\ store' = [store EXCEPT ![call.fid] =
                   IF call.op = "remove" THEN None
                   ELSE [data |-> call.data, once |-> call.once]]
    /\ UNCHANGED <<call, reply>>

Return ==
    /\ call # None /\ done
    /\ call' = None /\ done' = FALSE
    /\ reply' = <<"ok">>
    /\ UNCHANGED store

(* A call that fails leaves every asset as it was. *)
Reject(e) ==
    /\ call # None /\ ~done
    /\ call' = None /\ reply' = <<e>>
    /\ e = "not_permitted" => WriteOnce(call.fid)
    /\ e = "does_not_exist" => call.op = "remove" /\ store[call.fid] = None
    /\ e = "failed" => call.op = "set"
    /\ UNCHANGED <<store, done>>

Get(f) ==
    /\ call = None
    /\ reply' = IF store[f] = None THEN <<"does_not_exist">>
                ELSE <<"asset", store[f]>>
    /\ UNCHANGED <<store, call, done>>

PowerFail ==
    /\ call' = None /\ done' = FALSE
    /\ reply' = << >>
    /\ UNCHANGED store

Next ==
    \/ Request
    \/ Effect
    \/ Return
    \/ \E e \in ErrorCode : Reject(e)
    \/ \E f \in Fid : Get(f)
    \/ PowerFail

Spec == Init /\ [][Next]_vars
===============================================================================
