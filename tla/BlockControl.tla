---------------------------- MODULE BlockControl ----------------------------
(***************************************************************************)
(* The block command channel: an administrator writes one command into     *)
(* /run/xdp_fw/block_cmd and sends SIGUSR1; the handler puts a byte into a *)
(* self-pipe; the dashboard loop on the main thread drains the pipe, reads *)
(* the file, updates the permanent blocklist and truncates the file.       *)
(*                                                                         *)
(* A command is one line.  Its time is left out: whatever update_          *)
(* blacklist_map stores for it, XDP drops a host whose key is in the map.  *)
(***************************************************************************)
EXTENDS Naturals, FiniteSets

CONSTANTS
    Commands,   \* lines the administrator writes, each at most once
    Valid,      \* those whose address inet_pton accepts
    Empty,      \* the file without a line
    WaitFor,    \* signs by which the administrator tells that the last command is done
    Threads,    \* threads that do not block SIGUSR1
    Main,       \* the one that runs the dashboard loop
    PipeSize,   \* bytes the pipe holds, 65536 in the system
    MapSize,    \* entries permanent_blocklist_map has room for, 2048 in the code
    MaxFaults   \* bound of the model on failing fopen calls

ASSUME CommandsAssumption == Valid \subseteq Commands /\ Empty \notin Commands
ASSUME WaitAssumption     == WaitFor \subseteq {"empty", "effect"} /\ WaitFor # {}
ASSUME ThreadsAssumption  == Main \in Threads
ASSUME SizesAssumption    == PipeSize \in Nat \ {0} /\ MapSize \in Nat \ {0} /\ MaxFaults \in Nat

VARIABLES
    file,       \* contents of block_cmd
    pending,    \* is SIGUSR1 pending for the process?
    handling,   \* threads inside handle_sigusr1
    pipe,       \* bytes in the self-pipe
    loop,       \* where the dashboard loop is
    line,       \* what it has read from the file
    perm,       \* commands in force: their hosts are in permanent_blocklist_map
    applied,    \* history: how often each command was executed
    admin,      \* the administrator's procedure and the command at hand
    issued,     \* history: commands written into the file
    signalled,  \* history: commands the administrator has signalled
    lost,       \* history: commands emptied from the file before they were read
    faults      \* failed fopen calls so far

daemon == <<pending, handling, pipe, loop, line, perm, applied>>
vars   == <<file, daemon, admin, issued, signalled, lost, faults>>

\* the file may hold a command from before the daemon was started
Init ==
    /\ file \in Commands \cup {Empty}
    /\ pending = FALSE /\ handling = {} /\ pipe = 0
    /\ loop = "poll" /\ line = Empty
    /\ perm = {} /\ applied = [c \in Commands |-> 0]
    /\ admin = [step |-> "idle", cmd |-> Empty]
    /\ issued = {file} \ {Empty}
    /\ signalled = {} /\ lost = {}
    /\ faults = 0

-----------------------------------------------------------------------------
(***************************************************************************)
(* echo "<ip> <time>" > block_cmd; kill -USR1 <pid>                        *)
(***************************************************************************)
\* are the commands given so far done: is the file empty, or are the hosts
\* blocked?
Seen(sign) == IF sign = "empty" THEN file = Empty ELSE signalled \cap Valid \subseteq perm

Waiting == \A sign \in WaitFor : ~Seen(sign)

\* the shell opens the file with O_TRUNC before echo writes
OpenForWrite(c) ==
    /\ admin.step = "idle"
    /\ ~Waiting
    /\ c \notin issued
    /\ file' = Empty
    /\ admin' = [step |-> "opened", cmd |-> c]
    /\ UNCHANGED <<daemon, issued, signalled, lost, faults>>

WriteCommand ==
    /\ admin.step = "opened"
    /\ file' = admin.cmd
    /\ issued' = issued \cup {admin.cmd}
    /\ admin' = [admin EXCEPT !.step = "written"]
    /\ UNCHANGED <<daemon, signalled, lost, faults>>

SendSignal ==
    /\ admin.step = "written"
    /\ pending' = TRUE
    /\ signalled' = signalled \cup {admin.cmd}
    /\ admin' = [step |-> "idle", cmd |-> Empty]
    /\ UNCHANGED <<file, handling, pipe, loop, line, perm, applied, issued, lost, faults>>

\* signals again when the daemon has had the time to react
SignalAgain ==
    /\ admin.step = "idle" /\ Waiting
    /\ ~pending /\ handling = {} /\ pipe = 0 /\ loop = "poll"
    /\ pending' = TRUE
    /\ UNCHANGED <<file, handling, pipe, loop, line, perm, applied, admin, issued, signalled,
                   lost, faults>>

-----------------------------------------------------------------------------
(***************************************************************************)
(* handle_sigusr1, on any thread: the signal is blocked while its handler  *)
(* runs, and the write end of the pipe is blocking.                        *)
(***************************************************************************)
Deliver(t) ==
    /\ pending
    /\ t \notin handling
    /\ pending' = FALSE
    /\ handling' = handling \cup {t}
    /\ UNCHANGED <<file, pipe, loop, line, perm, applied, admin, issued, signalled, lost, faults>>

HandlerWrite(t) ==
    /\ t \in handling
    /\ pipe < PipeSize
    /\ handling' = handling \ {t}
    /\ pipe' = pipe + 1
    /\ UNCHANGED <<file, pending, loop, line, perm, applied, admin, issued, signalled, lost, faults>>

-----------------------------------------------------------------------------
(***************************************************************************)
(* The dashboard loop; it stands still while its thread is in the handler. *)
(***************************************************************************)
LoopAt(step) == loop = step /\ Main \notin handling

\* handle_sigusr_event: poll reports POLLIN and every byte is read
DrainPipe ==
    /\ LoopAt("poll")
    /\ pipe > 0
    /\ pipe' = 0
    /\ loop' = "open"
    /\ UNCHANGED <<file, pending, handling, line, perm, applied, admin, issued, signalled, lost,
                   faults>>

\* mutant: fopen with "w+" for "r"
ReadFileTruncating ==
    /\ LoopAt("open")
    /\ file' = Empty
    /\ line' = Empty
    /\ loop' = "apply"
    /\ UNCHANGED <<pending, handling, pipe, perm, applied, admin, issued, signalled, lost, faults>>

\* process_block_cmd_file: the file is read with one read call
ReadFile ==
    /\ LoopAt("open")
    /\ line' = file
    /\ loop' = "apply"
    /\ UNCHANGED <<file, pending, handling, pipe, perm, applied, admin, issued, signalled, lost,
                   faults>>

\* fopen fails: the event is forgotten and the file left alone
OpenFails ==
    /\ LoopAt("open")
    /\ faults < MaxFaults
    /\ faults' = faults + 1
    /\ loop' = "poll"
    /\ UNCHANGED <<file, pending, handling, pipe, line, perm, applied, admin, issued, signalled, lost>>

\* mutant: the result of inet_pton is ignored
ApplyLineUnchecked ==
    /\ LoopAt("apply")
    /\ perm' = perm \cup ({line} \ {Empty})
    /\ loop' = "truncate"
    /\ UNCHANGED <<file, pending, handling, pipe, line, applied, admin, issued, signalled, lost,
                   faults>>

MapFull == Cardinality(perm) >= MapSize

\* A line with a bad address is skipped.  update_blacklist_map does not look
\* at what bpf_map_update_elem returns: a new key for a full map is refused,
\* and the command counts as executed.  Nothing is ever deleted from the map.
ApplyLine ==
    /\ LoopAt("apply")
    /\ IF line \in Valid
       THEN /\ perm' = IF MapFull THEN perm ELSE perm \cup {line}
            /\ applied' = [applied EXCEPT ![line] = @ + 1]
       ELSE UNCHANGED <<perm, applied>>
    /\ loop' = "truncate"
    /\ UNCHANGED <<file, pending, handling, pipe, line, admin, issued, signalled, lost, faults>>

\* mutant: the file is not emptied
TruncateFileNever ==
    /\ LoopAt("truncate")
    /\ loop' = "poll"
    /\ line' = Empty
    /\ UNCHANGED <<file, pending, handling, pipe, perm, applied, admin, issued, signalled, lost,
                   faults>>

TruncateFile ==
    /\ LoopAt("truncate")
    /\ file' = Empty
    /\ lost' = lost \cup ({file} \ {line, Empty})
    /\ loop' = "poll"
    /\ line' = Empty
    /\ UNCHANGED <<pending, handling, pipe, perm, applied, admin, issued, signalled, faults>>

TruncateFails ==
    /\ LoopAt("truncate")
    /\ faults < MaxFaults
    /\ faults' = faults + 1
    /\ loop' = "poll"
    /\ line' = Empty
    /\ UNCHANGED <<file, pending, handling, pipe, perm, applied, admin, issued, signalled, lost>>

-----------------------------------------------------------------------------
Loop == \/ DrainPipe \/ ReadFile \/ OpenFails \/ ApplyLine \/ TruncateFile \/ TruncateFails

Procedure == \/ WriteCommand \/ SendSignal \/ SignalAgain

\* nothing more is written and nothing is under way
Quiet ==
    /\ issued = Commands /\ ~Waiting /\ admin.step = "idle"
    /\ ~pending /\ handling = {} /\ pipe = 0 /\ loop = "poll"
    /\ UNCHANGED vars

Next ==
    \/ \E c \in Commands : OpenForWrite(c)
    \/ Procedure
    \/ \E t \in Threads : Deliver(t) \/ HandlerWrite(t)
    \/ Loop
    \/ Quiet

(***************************************************************************)
(* A pending signal is delivered, a handler that can write does, the loop  *)
(* runs for as long as the daemon does, and a procedure begun is ended.    *)
(***************************************************************************)
Fairness ==
    /\ WF_vars(Procedure)
    /\ WF_vars(\E t \in Threads : Deliver(t))
    /\ \A t \in Threads : WF_vars(HandlerWrite(t))
    /\ WF_vars(Loop)

Spec == Init /\ [][Next]_vars /\ Fairness

-----------------------------------------------------------------------------
\* Every variable keeps its type.
TypeOK ==
    /\ file \in Commands \cup {Empty}
    /\ pending \in BOOLEAN
    /\ handling \subseteq Threads
    /\ pipe \in 0..PipeSize
    /\ loop \in {"poll", "open", "apply", "truncate"}
    /\ line \in Commands \cup {Empty}
    /\ perm \subseteq Valid
    /\ applied \in [Commands -> Nat]
    /\ admin \in [step : {"idle", "opened", "written"}, cmd : Commands \cup {Empty}]
    /\ issued \subseteq Commands
    /\ signalled \subseteq issued
    /\ lost \subseteq issued
    /\ faults \in 0..MaxFaults

\* A command that was signalled takes effect: its host is blocked sooner or
\* later, although fopen may fail on the way (Firewall.hpp:227-273).  Two
\* things can defeat it and nothing else: the command was written while an
\* earlier one was being executed and was emptied with it (Firewall.hpp:271),
\* or it was executed and the map had no room (Firewall.hpp:89).
CommandTakesEffect ==
    \A c \in Valid :
        (c \in signalled) ~> (c \in perm \/ c \in lost \/ (applied[c] > 0 /\ MapFull))

\* A command is not executed again, however many signals follow, except once
\* for each fopen that fails (Firewall.hpp:270 empties the file "to avoid
\* repeated execution").
AppliedOnce == \A c \in Valid : applied[c] <= 1 + faults
=============================================================================
