----------------------------- MODULE CommandLog -----------------------------
(***************************************************************************)
(* What the lockstep network game promises.  The server keeps one log of   *)
(* command lists, each issued for a keyframe; every client executes the    *)
(* lists of that log, all of them, in that order and at that keyframe.  A  *)
(* client that a broadcast skipped, or that went on in a pause, is         *)
(* detached: nothing is promised to it.                                    *)
(***************************************************************************)
EXTENDS Naturals, Sequences

CONSTANTS
  Client,         \* the machines that follow the server
  Command         \* the network commands that players and AIs give

VARIABLES
  log,            \* the sequence of lists issued so far
  history,        \* history[c]: the lists that c has executed
  attached        \* attached[c]: the promise still stands for c

logVars == <<log, history, attached>>

Entry == [key : Nat, cmds : Seq(Command)]

Init ==
  /\ log = <<>>
  /\ history = [c \in Client |-> <<>>]
  /\ attached = [c \in Client |-> TRUE]

(* The server adds one list; the clients in Lost do not get it.            *)
Issue(Lost) ==
  /\ Len(log') = Len(log) + 1
  /\ SubSeq(log', 1, Len(log)) = log
  /\ log'[Len(log')] \in Entry
  /\ Len(log) > 0 => log[Len(log)].key <= log'[Len(log')].key
  /\ attached' = [c \in Client |-> attached[c] /\ c \notin Lost]
  /\ history' = [c \in Client |-> IF attached'[c] THEN history[c] ELSE <<>>]

(* A client executes the next list of the log.                             *)
Execute(c) ==
  /\ attached[c]
  /\ Len(history[c]) < Len(log)
  /\ history' = [history EXCEPT ![c] = Append(@, log[Len(@) + 1])]
  /\ UNCHANGED <<log, attached>>

(* A client leaves the common course.                                      *)
Detach(c) ==
  /\ attached' = [attached EXCEPT ![c] = FALSE]
  /\ history' = [history EXCEPT ![c] = <<>>]
  /\ UNCHANGED log

Next ==
  \/ \E Lost \in SUBSET Client : Issue(Lost)
  \/ \E c \in Client : Execute(c) \/ Detach(c)

Spec == Init /\ [][Next]_logVars

=============================================================================
