---------------------------- MODULE ClientConnInv ----------------------------
(***************************************************************************)
(* The inductive invariant of ClientConn.                                  *)
(*                                                                         *)
(* Locking relates the two goroutines of a connection through its mutex.   *)
(* Owned says, as long as no invocation was reported twice, who owns each  *)
(* call: the invocation it was made for, exactly one place on the way      *)
(* through the client, a Done channel or the pool.                         *)
(***************************************************************************)
EXTENDS ClientConn

Live == {"made", "queued", "taken", "pending", "reading"}

-----------------------------------------------------------------------------
(* The mutex, and what the reader has done when it ends.                   *)

MutexHeld ==
    \A c \in Conns :
       /\ mutex[c] = "writer" <=> wpc[c] = "gather"
       /\ mutex[c] = "reader" <=> rpc[c] = "drain"

\* Only the reader shuts a connection down, and the writer files no call then.
ShutdownByReader ==
    \A c \in Conns :
       /\ wpc[c] = "off" <=> rpc[c] = "off"
       /\ shutdown[c] <=> rpc[c] \in {"drain", "exit"}
       /\ wpc[c] = "gather" => ~shutdown[c]
       /\ todrain[c] # {} => rpc[c] = "drain"

Drained ==
    \A c \in Conns : rpc[c] \in {"drain", "exit"} =>
       \A e \in pending[c] \ todrain[c] : completions[e.req] >= 1

Locking == MutexHeld /\ ShutdownByReader /\ Drained

-----------------------------------------------------------------------------
(* The calls: heap, pool and Done channels against phase and obj.          *)

\* An invocation under way has its call for itself, with a clean Error.
LiveHoldsCall ==
    \A r \in Reqs : phase[r] \in Live =>
       /\ obj[r] \in Objs
       /\ pool[obj[r]] = 0
       /\ heap[obj[r]].req = r
       /\ heap[obj[r]].done = ChanOf(r)
       /\ heap[obj[r]].err = "nil"
       /\ r \in SyncReqs => ~heap[obj[r]].cancel

NotYetReported ==
    \A r \in Reqs : phase[r] \in Live \cup {"idle"} =>
       /\ completions[r] = 0
       /\ r \notin answered
       /\ r \in SyncReqs => done[r] = <<>>

PooledIsBlank ==
    \A o \in Objs : pool[o] <= 1 /\ (pool[o] = 1 => heap[o] = Blank)

\* A call in a Done channel belongs to a completed invocation of that channel.
Waiting(ch, o) ==
    /\ pool[o] = 0
    /\ heap[o].done = ch
    /\ \E r \in Reqs :
          /\ heap[o].req = r
          /\ ChanOf(r) = ch
          /\ phase[r] = "completed"
          /\ obj[r] = o
          /\ heap[o].err = "nil" <=> r \in answered

DoneHoldsCalls ==
    \A ch \in Chans :
       /\ \A i \in DOMAIN done[ch] : Waiting(ch, done[ch][i])
       /\ \A i, j \in DOMAIN done[ch] : done[ch][i] = done[ch][j] => i = j

SyncIsWaiting ==
    \A r \in SyncReqs : phase[r] = "completed" => done[r] = <<obj[r]>>

ResultIsOutcome ==
    \A r \in Reqs : phase[r] = "returned" => (result[r] = "nil" <=> r \in answered)

CallsOwned ==
    /\ LiveHoldsCall /\ NotYetReported /\ PooledIsBlank
    /\ DoneHoldsCalls /\ SyncIsWaiting /\ ResultIsOutcome

-----------------------------------------------------------------------------
(* The places a call passes through, against phase and obj.                *)

QueueOwns ==
    /\ \A i \in DOMAIN inq :
          phase[inq[i].req] = "queued" /\ inq[i].obj = obj[inq[i].req]
    /\ \A i, j \in DOMAIN inq : inq[i].req = inq[j].req => i = j

WriterOwns ==
    \A c \in Conns : wpc[c] = "got" =>
       /\ phase[wcall[c].req] = "taken"
       /\ wcall[c].obj = obj[wcall[c].req]
       /\ \A d \in Conns : wpc[d] = "got" /\ wcall[d].req = wcall[c].req => d = c

\* After onShutDown, pending still holds the calls it has failed.
PendingOwns ==
    \A c \in Conns : \A e \in pending[c] :
       \/ phase[e.req] = "pending" /\ e.obj = obj[e.req]
       \/ shutdown[c] /\ completions[e.req] >= 1
                      /\ phase[e.req] \in {"completed", "returned"}

PendingOnce ==
    \A c, d \in Conns : \A e \in pending[c], f \in pending[d] :
       e.req = f.req => c = d /\ e = f

SeqUnique ==
    \A c \in Conns : \A e \in pending[c] :
       /\ e.seq < seq[c]
       /\ \A f \in pending[c] : e.seq = f.seq => e = f

DrainOwns ==
    \A c \in Conns : \A e \in todrain[c] :
       e \in pending[c] /\ phase[e.req] = "pending"

ReaderOwns ==
    \A c \in Conns : rpc[c] = "deliver" =>
       /\ phase[rcall[c].req] = "reading"
       /\ rcall[c].obj = obj[rcall[c].req]
       /\ rcall[c].from = rcall[c].req
       /\ \A d \in Conns : rpc[d] = "deliver" /\ rcall[d].req = rcall[c].req => d = c

\* A group and the messages written from it agree with pending about which
\* invocation a sequence number stands for.
GroupAgrees ==
    \A c \in Conns : \A i \in DOMAIN group[c] :
       /\ group[c][i].seq < seq[c]
       /\ \A e \in pending[c] : e.seq = group[c][i].seq => e = group[c][i]

WireAgrees ==
    \A c \in Conns : \A m \in wire[c] : ~m.ping =>
       /\ m.seq < seq[c]
       /\ \A e \in pending[c] :
             e.seq = m.seq /\ phase[e.req] = "pending" => m.req = e.req

PlacesOwn ==
    /\ QueueOwns /\ WriterOwns /\ PendingOwns /\ PendingOnce /\ SeqUnique
    /\ DrainOwns /\ ReaderOwns /\ GroupAgrees /\ WireAgrees

Owned == CallsOwned /\ PlacesOwn

-----------------------------------------------------------------------------

\* The inductive invariant of a connection: who may touch pending when, and,
\* until a call is reported twice, who owns every call.
IInv == TypeOK /\ Locking /\ (ReportedOnce => Owned)

=============================================================================
