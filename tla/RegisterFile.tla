---------------------------- MODULE RegisterFile ----------------------------
(***************************************************************************)
(* What the driver's register accesses promise to several callers: a value *)
(* of one, two or four bytes, at any byte of any register file, is written *)
(* or read as a whole, at one moment between the call and its return.      *)
(***************************************************************************)
EXTENDS Naturals

CONSTANTS Callers, Requests, Initial,
          Stored(_, _),    \* the store after a write
          Found(_, _)      \* the value a read finds in a store

VARIABLES store,     \* the registers
          access     \* of each caller: none, or the request, and its result

vars == <<store, access>>

None == [state |-> "none"]

Init == /\ store = Initial
        /\ access = [c \in Callers |-> None]

Call(c, req) ==
    /\ access[c] = None
    /\ access' = [access EXCEPT ![c] = [state |-> "called", req |-> req]]
    /\ UNCHANGED store

Access(c) ==
    /\ access[c].state = "called"
    /\ LET req == access[c].req
       IN  IF req.op = "write"
           THEN /\ store' = Stored(store, req)
                /\ access' = [access EXCEPT ![c] = [state |-> "ended", value |-> req.value]]
           ELSE /\ access' = [access EXCEPT ![c] = [state |-> "ended", value |-> Found(store, req)]]
                /\ UNCHANGED store

Return(c) ==
    /\ access[c].state = "ended"
    /\ access' = [access EXCEPT ![c] = None]
    /\ UNCHANGED store

Next == \E c \in Callers: \/ \E req \in Requests: Call(c, req)
                          \/ Access(c)
                          \/ Return(c)

Spec == Init /\ [][Next]_vars
=============================================================================
