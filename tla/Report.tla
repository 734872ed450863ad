------------------------------- MODULE Report --------------------------------
(***************************************************************************)
(* Events on their way from the XDP program to the dashboard: emit_event   *)
(* stores each one in report_to_user_map, under a bucket of its source     *)
(* address, and once a second poll_clean_and_print_log_ordered walks the   *)
(* map, copies and deletes what it finds, and prints the newest events.    *)
(* An event is its time stamp.  Bucket 10000, which the walk skips, is     *)
(* never written.                                                          *)
(***************************************************************************)
EXTENDS Naturals, Sequences

CONSTANTS
    Buckets,        \* the number of buckets, 10000 in the code
    BUFFER_SIZE,    \* of sorted_buffer, 10000 in the code
    MaxEvents       \* bound of the model on the events

ASSUME ReportAssumption ==
    Buckets \in Nat \ {0} /\ BUFFER_SIZE \in Nat \ {0} /\ MaxEvents \in Nat

VARIABLES
    clock,   \* time stamps taken
    flight,  \* events stamped on some CPU and not yet stored: <<ts, bucket>>
    map,     \* the event in each bucket; 0: none
    pc,      \* where the walk is: sleep, next, lookup, delete, print
    cursor,  \* lookup_key; 0: NULL
    key,     \* next_key
    sorted,  \* sorted_buffer[0 .. count-1]
    found,   \* history: the map when the walk began
    touched, \* history: the buckets stored to since
    copied   \* history: all events copied in earlier walks

reportVars == <<clock, flight, map, pc, cursor, key, sorted, found, touched, copied>>
walk == <<pc, cursor, key, sorted>>

Bucket == 1..Buckets      \* in the order in which the kernel keeps the keys

Copies == {sorted[k] : k \in 1..Len(sorted)}

ReportInit ==
    /\ clock = 0 /\ flight = {}
    /\ map = [b \in Bucket |-> 0]
    /\ pc = "sleep" /\ cursor = 0 /\ key = 0 /\ sorted = <<>>
    /\ found = map /\ touched = {} /\ copied = {}

-----------------------------------------------------------------------------
\* process_event
Stamp(b) ==
    /\ clock < MaxEvents /\ clock' = clock + 1
    /\ flight' = flight \cup {<<clock', b>>}
    /\ UNCHANGED <<map, walk, found, touched, copied>>

\* update_report_map: whatever the bucket holds is replaced
Store(e) ==
    /\ flight' = flight \ {e}
    /\ map' = [map EXCEPT ![e[2]] = e[1]]
    /\ touched' = touched \cup {e[2]}
    /\ UNCHANGED <<clock, walk, found, copied>>

-----------------------------------------------------------------------------
\* bpf_map_get_next_key: it starts over when the key is no longer there
KeyAfter(k) ==
    LET from == IF k # 0 /\ map[k] # 0 THEN k ELSE 0
        rest == {b \in Bucket : b > from /\ map[b] # 0}
    IN  IF rest = {} THEN 0 ELSE CHOOSE b \in rest : \A c \in rest : b <= c

BeginWalk ==
    /\ pc = "sleep" /\ pc' = "next"
    /\ cursor' = 0 /\ key' = 0 /\ sorted' = <<>>
    /\ found' = map /\ touched' = {}
    /\ UNCHANGED <<clock, flight, map, copied>>

\* mutant: a full buffer ends neither the walk nor the life of an entry
NextKeyKeeping ==
    /\ pc = "next"
    /\ key' = KeyAfter(cursor)
    /\ cursor' = IF key' # 0 /\ Len(sorted) = BUFFER_SIZE THEN 0 ELSE cursor
    /\ pc' = IF key' = 0 THEN "print" ELSE IF Len(sorted) < BUFFER_SIZE THEN "lookup" ELSE "next"
    /\ UNCHANGED <<clock, flight, map, sorted, found, touched, copied>>

\* with a full buffer entries are deleted unread
NextKey ==
    /\ pc = "next"
    /\ key' = KeyAfter(cursor)
    /\ pc' = IF key' = 0 THEN "print" ELSE IF Len(sorted) < BUFFER_SIZE THEN "lookup" ELSE "delete"
    /\ UNCHANGED <<clock, flight, map, cursor, sorted, found, touched, copied>>

\* mutant: count is not advanced
LookupSameSlot ==
    /\ pc = "lookup" /\ pc' = "delete"
    /\ sorted' = <<map[key]>>
    /\ UNCHANGED <<clock, flight, map, cursor, key, found, touched, copied>>

\* mutant: the entry is deleted before it is read
LookupDeleted ==
    /\ pc = "lookup" /\ pc' = "delete"
    /\ map' = [map EXCEPT ![key] = 0]
    /\ sorted' = Append(sorted, map'[key])
    /\ UNCHANGED <<clock, flight, cursor, key, found, touched, copied>>

Lookup ==
    /\ pc = "lookup" /\ pc' = "delete"
    /\ sorted' = Append(sorted, map[key])
    /\ UNCHANGED <<clock, flight, map, cursor, key, found, touched, copied>>

\* mutant: what was copied is kept
KeepCopied ==
    /\ pc = "delete" /\ pc' = "next"
    /\ cursor' = key
    /\ UNCHANGED <<clock, flight, map, key, sorted, found, touched, copied>>

\* the entry is deleted as it is now, not as it was copied
Delete ==
    /\ pc = "delete" /\ pc' = "next"
    /\ map' = [map EXCEPT ![key] = 0]
    /\ cursor' = key
    /\ UNCHANGED <<clock, flight, key, sorted, found, touched, copied>>

\* the copies are sorted by time and the last MAX_LOG_LINES printed
PrintLog ==
    /\ pc = "print" /\ pc' = "sleep"
    /\ copied' = copied \cup Copies
    /\ sorted' = <<>> /\ cursor' = 0
    /\ UNCHANGED <<clock, flight, map, key, found, touched>>

Walk == BeginWalk \/ NextKey \/ Lookup \/ Delete \/ PrintLog

ReportNext ==
    \/ \E b \in Bucket : Stamp(b)
    \/ \E e \in flight : Store(e)
    \/ Walk

\* the dashboard thread is scheduled; packets need not come
ReportSpec == ReportInit /\ [][ReportNext]_reportVars /\ WF_reportVars(Walk)

-----------------------------------------------------------------------------
(***************************************************************************)
(* Properties.                                                             *)
(***************************************************************************)
\* Every variable keeps its type; what was copied is an event.
ReportTypeOK ==
    /\ clock \in 0..MaxEvents /\ flight \subseteq (1..MaxEvents) \X Bucket
    /\ map \in [Bucket -> 0..MaxEvents] /\ found \in [Bucket -> 0..MaxEvents]
    /\ pc \in {"sleep", "next", "lookup", "delete", "print"}
    /\ cursor \in 0..Buckets /\ key \in 0..Buckets
    /\ \A k \in 1..Len(sorted) : sorted[k] \in 1..MaxEvents
    /\ touched \subseteq Bucket /\ copied \subseteq 1..MaxEvents

\* sorted_buffer is never overrun and no event is shown twice, in one walk or
\* in two, although keys come back while the walk deletes them
\* (main.cpp:289-325).
ShownOnce ==
    /\ Len(sorted) <= BUFFER_SIZE
    /\ \A j, k \in 1..Len(sorted) : sorted[j] = sorted[k] => j = k
    /\ Copies \cap copied = {}
    /\ pc \in {"sleep", "next"} => \A b \in Bucket : map[b] \notin copied \cup Copies

\* An event that is in the map when a walk begins is copied by that walk or
\* left for the next one, unless XDP stored to its bucket meanwhile (the walk
\* deletes what it has not read) or the buffer was full (main.cpp:297-325).
NoSilentLoss ==
    pc = "print" => \A b \in Bucket \ touched :
        \/ found[b] = 0
        \/ found[b] \in Copies \/ map[b] = found[b]
        \/ Len(sorted) = BUFFER_SIZE

\* Once the traffic pauses the walk ends, from wherever the cursor is: a
\* dashboard that stays in it neither handles commands nor sees a shutdown.
WalkEnds == pc = "next" ~> pc = "print"
==============================================================================
