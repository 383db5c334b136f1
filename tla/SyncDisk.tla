----------------------------- MODULE SyncDisk -----------------------------
(***************************************************************************)
(* What a caller of enqueue_umass_request may rely on: the call is         *)
(* synchronous.  A request takes effect at most once, on the device and    *)
(* the block it names, between the call and its return, and a request      *)
(* whose transfer fails changes nothing.  UmassRequest implements this for *)
(* the mass-storage device whose umass_id is 0.                            *)
(***************************************************************************)
CONSTANTS Umass,        \* mass-storage devices
          Block,        \* block numbers
          Data,         \* contents of a block
          NoCall        \* no call in progress

VARIABLES disk,         \* the contents of each device
          val,          \* the caller's memory the request points to
          call          \* the request being executed, or NoCall

vars == <<disk, val, call>>

Request == [umass_id : Umass, read : BOOLEAN, blkno : Block]

Init ==
    /\ disk \in [Umass -> [Block -> Data]]
    /\ val \in Data
    /\ call = NoCall

\* The caller puts what it wants to write into its memory and calls.
Call(req, d) ==
    /\ call = NoCall
    /\ val' = d
    /\ call' = [req |-> req, executed |-> FALSE]
    /\ UNCHANGED disk

Transfer(req) ==
    IF req.read THEN /\ val' = disk[req.umass_id][req.blkno]
                     /\ UNCHANGED disk
                ELSE /\ disk' = [disk EXCEPT ![req.umass_id][req.blkno] = val]
                     /\ UNCHANGED val

Execute ==
    /\ call # NoCall /\ ~call.executed
    /\ Transfer(call.req) \/ UNCHANGED <<disk, val>>
    /\ call' = [call EXCEPT !.executed = TRUE]

Return ==
    /\ call # NoCall /\ call.executed
    /\ call' = NoCall
    /\ UNCHANGED <<disk, val>>

Next ==
    \/ \E req \in Request, d \in Data : Call(req, d)
    \/ Execute
    \/ Return

Spec == Init /\ [][Next]_vars
===========================================================================
