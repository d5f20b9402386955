-------------------------------- MODULE Call --------------------------------
(***************************************************************************)
(* TCall (rpc/call.go): the record of one remote invocation, the pool such *)
(* records are recycled through, and WhenCallDone, which reports an        *)
(* invocation's outcome on its Done channel.                               *)
(*                                                                         *)
(* An invocation is one use of SyncCall or AsyncCall; a TCall object is a  *)
(* piece of memory that serves one invocation after another.  The two are  *)
(* kept apart because the hazards of this code are about an object that is *)
(* released twice or is still referenced when its next invocation starts.  *)
(***************************************************************************)
EXTENDS Naturals, Sequences

CONSTANTS
    Reqs,       \* the invocations
    SyncReqs,   \* those made with SyncCall, each with a Done channel of its own
    UserChans,  \* the channels passed to AsyncCall
    AsyncChan,  \* the aDoneChan of an AsyncCall invocation, possibly NoChan
    UserCap,    \* the capacity of a channel passed to AsyncCall
    Objs,       \* the TCall objects
    NoReq, NoChan

ASSUME CallAssumption ==
    /\ SyncReqs \subseteq Reqs
    /\ NoReq \notin Reqs
    /\ UserChans \cap Reqs = {}
    /\ NoChan \notin Reqs \cup UserChans
    /\ AsyncChan \in [Reqs \ SyncReqs -> UserChans \cup {NoChan}]
    /\ UserCap \in [UserChans -> Nat \ {0}]  \* unbuffered channels are left out

VARIABLES
    heap,    \* the fields of each TCall object
    pool,    \* how often gCallPool can hand out each object
    done,    \* the contents of each Done channel
    closed   \* the channels their user has closed

callVars == <<heap, pool, done, closed>>

-----------------------------------------------------------------------------

\* The channel SyncCall makes is named after its invocation.
Chans == SyncReqs \cup UserChans
ChanOf(r) == IF r \in SyncReqs THEN r ELSE AsyncChan[r]
CapUnbuffered(ch) == IF ch \in SyncReqs THEN 0 ELSE UserCap[ch]  \* mutant
Cap(ch) == IF ch \in SyncReqs THEN 1 ELSE UserCap[ch]

\* TCall.Error, down to where it was set.
Errors == {"nil", "full", "shutdown", "write", "remote", "body", "down"}

\* req stands for SeviceMethod, Args and Reply.
TCall == [req : Reqs \cup {NoReq}, done : Chans \cup {NoChan},
          err : Errors, cancel : BOOLEAN]

\* TCall{}: what Reset leaves behind, and what the pool's New returns.
Blank == [req |-> NoReq, done |-> NoChan, err |-> "nil", cancel |-> FALSE]

CallTypeOK ==
    /\ heap \in [Objs -> TCall]
    /\ pool \in [Objs -> Nat]
    /\ done \in [Chans -> Seq(Objs)]
    /\ closed \subseteq UserChans

\* An object that was never allocated is in the pool as well: Get returns a
\* zero TCall for it, just as it does for an object that was freed once.
CallInit ==
    /\ heap = [o \in Objs |-> Blank]
    /\ pool = [o \in Objs |-> 1]
    /\ done = [ch \in Chans |-> <<>>]
    /\ closed = {}

-----------------------------------------------------------------------------

\* NewCall and the assignments that follow it in SyncCall and AsyncCall.
\* Error is not assigned: it is whatever the object was pooled with.
NewCall(o, r) ==
    /\ pool[o] > 0
    /\ pool' = [pool EXCEPT ![o] = @ - 1]
    /\ heap' = [heap EXCEPT ![o] = [req |-> r, done |-> ChanOf(r),
                                    err |-> @.err, cancel |-> FALSE]]
    /\ UNCHANGED <<done, closed>>

\* Mutant: FreeCall without the Reset.
FreeCallNoReset(o) ==
    /\ pool' = [pool EXCEPT ![o] = @ + 1]
    /\ UNCHANGED heap

\* FreeCall: Reset, then Put.
FreeCall(o) ==
    /\ heap' = [heap EXCEPT ![o] = Blank]
    /\ pool' = [pool EXCEPT ![o] = @ + 1]

\* CancelCall.
CancelCall(o) ==
    /\ heap' = [heap EXCEPT ![o].cancel = TRUE]
    /\ UNCHANGED <<pool, done, closed>>

\* Whether done() can reach its select without a panic or an early return.
Notifies(o) ==
    /\ heap[o].done # NoChan
    /\ ~heap[o].cancel
    /\ heap[o].done \notin closed

\* Mutant: WhenCallDone frees the call that it has just sent to its channel.
WhenCallDoneFrees(o, e) ==
    /\ FreeCall(o)
    /\ \/ /\ Notifies(o)
          /\ Len(done[heap[o].done]) < Cap(heap[o].done)
          /\ done' = [done EXCEPT ![heap[o].done] = Append(@, o)]
       \/ /\ ~Notifies(o) \/ Len(done[heap[o].done]) >= Cap(heap[o].done)
          /\ UNCHANGED done
    /\ UNCHANGED closed

\* aCall.Error = e; WhenCallDone(aCall).  The call is freed when nobody waits
\* for it, when it was cancelled, and when the send panics on a closed channel
\* (the recover in done).  A full channel drops the notification.
WhenCallDone(o, e) ==
    /\ \/ /\ ~Notifies(o)
          /\ FreeCall(o)
          /\ UNCHANGED done
       \/ /\ Notifies(o)
          /\ Len(done[heap[o].done]) < Cap(heap[o].done)
          /\ heap' = [heap EXCEPT ![o].err = e]
          /\ done' = [done EXCEPT ![heap[o].done] = Append(@, o)]
          /\ UNCHANGED pool
       \/ /\ Notifies(o)
          /\ Len(done[heap[o].done]) >= Cap(heap[o].done)
          /\ heap' = [heap EXCEPT ![o].err = e]
          /\ UNCHANGED <<pool, done>>
    /\ UNCHANGED closed

\* The receiver takes a call off its Done channel, reads Error and frees it.
Collect(ch) ==
    /\ done[ch] # <<>>
    /\ done' = [done EXCEPT ![ch] = Tail(@)]
    /\ FreeCall(Head(done[ch]))
    /\ UNCHANGED closed

\* A user closes the channel it passed to AsyncCall.
CloseChan(ch) ==
    /\ ch \notin closed
    /\ closed' = closed \cup {ch}
    /\ UNCHANGED <<heap, pool, done>>

=============================================================================
