------------------------------ MODULE Channel ------------------------------
(***************************************************************************)
(* A channel of HDiffPatch (libParallel/parallel_channel.cpp) without a    *)
(* limit on the data in it: _dataList, _isClosed, and the threads that     *)
(* wait on _acceptCond.  Each call is one critical section of _locker; a   *)
(* thread that is taken from waiting takes the lock again and looks anew.  *)
(***************************************************************************)
EXTENDS Sequences

NewChannel == [list |-> <<>>, closed |-> FALSE, waiting |-> {}]

\* condvar_signal: one of the threads that wait, if there is one.
Signalled(chan) ==
  IF chan.waiting = {} THEN {chan} ELSE {[chan EXCEPT !.waiting = @ \ {t}] : t \in chan.waiting}

\* close, with its broadcast.
Closed(chan) == [chan EXCEPT !.closed = TRUE, !.waiting = {}]

\* send, to a channel that is open; to a closed one it does nothing and fails.
Sent(chan, data) == Signalled([chan EXCEPT !.list = Append(@, data)])

\* accept finds data, finds that none will come, or waits.
HasData(chan) == chan.list # <<>>
Accepted(chan) == [chan EXCEPT !.list = Tail(@)]
IsOver(chan) == chan.list = <<>> /\ chan.closed
MustWait(chan) == chan.list = <<>> /\ ~chan.closed
Waiting(chan, t) == [chan EXCEPT !.waiting = @ \union {t}]

=============================================================================
