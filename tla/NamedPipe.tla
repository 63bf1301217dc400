----------------------------- MODULE NamedPipe -----------------------------
(* The Windows named pipe between the game and the Python server, as the code *)
(* uses it (the system itself is not in the repository).  The server makes a  *)
(* new instance of the pipe for every session and serves one client on it.    *)
(* An instance is a pair of byte streams.  A snapshot is written by the game  *)
(* as two WriteFile calls, so it travels as two parts, its length (here 0)    *)
(* and its body (here the number of the copy), and the game may die between   *)
(* them; a command is written by one call.                                    *)
(* What was written before an end closed can still be read at the other end.  *)
EXTENDS Naturals, Sequences

CONSTANTS MaxSession  \* bound: the number of sessions the server opens

ASSUME MaxSessionAssumption == MaxSession \in Nat \ {0}

VARIABLE pipe

Sessions == 1 .. MaxSession

NoPipe == [srv |-> "none", cli |-> "none", up |-> << >>, down |-> << >>]

PipeInit == pipe = [s \in Sessions |-> NoPipe]

\* A client can connect as soon as the instance exists and is not taken.
Listening(s) == pipe[s].srv = "open" /\ pipe[s].cli = "none"

ServerCanRead(s)  == pipe[s].srv = "open" /\ pipe[s].up # << >>
\* ReadFile fails at once on a closed handle, and at the end of the stream.
ServerReadFails(s) == \/ pipe[s].srv = "closed"
                      \/ pipe[s].cli = "closed" /\ pipe[s].up = << >>
ServerCanWrite(s) == pipe[s].srv = "open" /\ pipe[s].cli = "open"
ClientCanWrite(s) == pipe[s].srv = "open"

CreateInstance(s) == pipe' = [pipe EXCEPT ![s].srv = "open"]
ServerClose(s)    == pipe' = [pipe EXCEPT ![s].srv = "closed"]
ClientOpen(s)     == pipe' = [pipe EXCEPT ![s].cli = "open"]
ClientClose(s)    == pipe' = [pipe EXCEPT ![s].cli = "closed"]
ServerTake(s)     == pipe' = [pipe EXCEPT ![s].up = Tail(@)]
ServerWrite(s, c) == pipe' = [pipe EXCEPT ![s].down = Append(@, c)]
ClientTake(s)     == pipe' = [pipe EXCEPT ![s].down = Tail(@)]
ClientWrite(s, p) == pipe' = [pipe EXCEPT ![s].up = Append(@, p)]
=============================================================================
