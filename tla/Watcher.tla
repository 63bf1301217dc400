------------------------------ MODULE Watcher ------------------------------
(* _watch_and_inject of server/bridge_server.py: it looks for processes of    *)
(* the game and has the DLL loaded into each, once it has been seen for       *)
(* INJECT_DELAY_S.  A pass of the loop is a listing of the processes, a step  *)
(* for every process listed, and a second listing; processes start and end    *)
(* between any two of these, and the system may use an id again.              *)
(*                                                                            *)
(* Time is what passes from one pass to the next, the three seconds of sleep  *)
(* and the injections (up to 20 s each) included: pending[p] is now minus the *)
(* value that the code stores, and stays at Delay once it is reached.         *)
EXTENDS Integers

CONSTANTS Pids,      \* process ids
          Delay,     \* INJECT_DELAY_S
          Elapsed,   \* how long a pass may take
          MaxStart,  \* bound: the number of game processes started
          MaxFail    \* bound: the number of listings and injections that fail

ASSUME TimesAssumption == Delay \in Nat /\ Elapsed \subseteq Nat \ {0}
ASSUME BoundsAssumption == MaxStart \in Nat /\ MaxFail \in Nat

VARIABLES
    \* the system
    proc,      \* proc[p]: the number of the game process that has the id p, or 0
    started,   \* how many game processes have been started
    attached,  \* the processes that have loaded the DLL
    failures,  \* how many listings and injections have failed
    \* the watcher
    pass,      \* it is between its two listings, and not asleep
    todo,      \* the ids listed that it has still to look at
    injected,  \* set of ids
    pending,   \* from ids to the time since they were first seen
    \* history
    listed,    \* from the ids of running processes that some pass has listed
               \* to the time since the first one that did
    reused     \* ids whose process has ended since a second listing last found
               \* them free, or the watcher last forgot them

system  == <<proc, started, attached>>
watcher == <<pass, todo, injected, pending>>
vars    == <<system, failures, watcher, listed, reused>>

Live == {p \in Pids : proc[p] # 0}

Aged(f, d) ==
    [p \in DOMAIN f |-> IF f[p] + d > Delay THEN Delay ELSE f[p] + d]
WithNew(f, S) == [p \in DOMAIN f \cup S |-> IF p \in DOMAIN f THEN f[p] ELSE 0]
Without(f, S) == [p \in DOMAIN f \ S |-> f[p]]

Init ==
    /\ proc = [p \in Pids |-> 0]
    /\ started = 0
    /\ attached = {}
    /\ failures = 0
    /\ pass = FALSE
    /\ todo = {}
    /\ injected = {}
    /\ pending = [p \in {} |-> 0]
    /\ listed = [p \in {} |-> 0]
    /\ reused = {}

-----------------------------------------------------------------------------
(* The game's processes *)

Start(p) ==
    /\ proc[p] = 0
    /\ started < MaxStart
    /\ started' = started + 1
    /\ proc' = [proc EXCEPT ![p] = started']
    /\ UNCHANGED <<attached, failures, watcher, listed, reused>>

Exit(p) ==
    /\ proc[p] # 0
    /\ proc' = [proc EXCEPT ![p] = 0]
    /\ listed' = Without(listed, {p})
    /\ reused' = reused \cup {p}
    /\ UNCHANGED <<started, attached, failures, watcher>>

-----------------------------------------------------------------------------
(* The watcher *)

\* _find_fa_pids: a tasklist that fails or times out lists nothing.
find_fa_pids(found) ==
    \/ found = Live /\ UNCHANGED failures
    \/ /\ failures < MaxFail
       /\ failures' = failures + 1
       /\ found = {}

\* now is read, and the processes are listed.
List(d, found) ==
    /\ ~pass
    /\ pass' = TRUE
    /\ find_fa_pids(found)
    /\ todo' = found
    /\ pending' = Aged(pending, d)
    /\ listed' = WithNew(Aged(listed, d), found)
    /\ UNCHANGED <<system, injected, reused>>

Skip(p) ==
    /\ p \in todo
    /\ \/ p \in injected
       \/ p \in DOMAIN pending /\ pending[p] < Delay
    /\ todo' = todo \ {p}
    /\ UNCHANGED <<system, failures, pass, injected, pending, listed, reused>>

Detect(p) ==
    /\ p \in todo \ (injected \cup DOMAIN pending)
    /\ todo' = todo \ {p}
    /\ pending' = WithNew(pending, {p})
    /\ UNCHANGED <<system, failures, pass, injected, listed, reused>>

\* _inject_dll: does inject.exe report success?  Only for a process that runs;
\* and after a time-out (false) the DLL may be loaded or not.
inject_dll(p, works) ==
    \/ /\ works /\ proc[p] # 0
       /\ attached' = attached \cup {proc[p]}
       /\ UNCHANGED failures
    \/ /\ ~works /\ proc[p] = 0
       /\ UNCHANGED <<attached, failures>>
    \/ /\ ~works /\ proc[p] # 0
       /\ failures < MaxFail
       /\ failures' = failures + 1
       /\ attached' \in {attached, attached \cup {proc[p]}}

\* Mutant: an id counts as injected whether or not the injection worked.
MutInjectOnce(p, works) ==
    /\ p \in todo \ injected
    /\ p \in DOMAIN pending /\ pending[p] = Delay
    /\ inject_dll(p, works)
    /\ todo' = todo \ {p}
    /\ injected' = injected \cup {p}
    /\ pending' = Without(pending, {p})
    /\ reused' = reused \ {p}
    /\ UNCHANGED <<proc, started, pass, listed>>

\* Whatever came of it the id is forgotten, to be seen and tried afresh.
Inject(p, works) ==
    /\ p \in todo \ injected
    /\ p \in DOMAIN pending /\ pending[p] = Delay
    /\ inject_dll(p, works)
    /\ todo' = todo \ {p}
    /\ injected' = IF works THEN injected \cup {p} ELSE injected
    /\ pending' = Without(pending, {p})
    /\ reused' = reused \ {p}
    /\ UNCHANGED <<proc, started, pass, listed>>

\* Mutant: an id stays pending when its process has disappeared.
MutNoClean(found) ==
    /\ pass /\ todo = {}
    /\ pass' = FALSE
    /\ find_fa_pids(found)
    /\ reused' = reused \cap found
    /\ UNCHANGED <<system, todo, injected, pending, listed>>

\* The second listing cleans up what is pending, but not what was injected.
Clean(found) ==
    /\ pass /\ todo = {}
    /\ pass' = FALSE
    /\ find_fa_pids(found)
    /\ pending' = Without(pending, Pids \ found)
    /\ reused' = reused \cap found
    /\ UNCHANGED <<system, todo, injected, listed>>

WatcherStep ==
    \/ \E found \in {Live, {}} : Clean(found) \/ \E d \in Elapsed : List(d, found)
    \/ \E p \in Pids : Skip(p) \/ Detect(p) \/ \E works \in BOOLEAN : Inject(p, works)

Next == WatcherStep \/ \E p \in Pids : Start(p) \/ Exit(p)

Spec == Init /\ [][Next]_vars

(* The watcher's task runs for ever.  Nothing makes a game start or end.      *)
FairSpec == Spec /\ WF_vars(WatcherStep)

-----------------------------------------------------------------------------
(* Properties *)

Attempted(p) == p \in todo \ todo' /\ p \in DOMAIN pending \ DOMAIN pending'

\* The DLL is injected only into a process that has itself been listed for the
\* delay.  The exception are ids that changed hands between two cleanings: their
\* new process inherits the time that the old one was waiting.
NeverTooEarly ==
    [][\A p \in Pids : Attempted(p) /\ p \notin reused =>
         p \in DOMAIN listed /\ listed[p] = Delay]_vars

\* Every game whose id has not been used by an injected one gets the DLL in the
\* end, if it lives: failed listings and injections only put it off.
EveryGameAttached ==
    \A p \in Pids, k \in 1 .. MaxStart :
      (proc[p] = k /\ p \notin injected) ~> (k \in attached \/ proc[p] # k)
=============================================================================
