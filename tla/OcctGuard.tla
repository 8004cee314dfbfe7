------------------------------ MODULE OcctGuard ------------------------------
(***************************************************************************)
(* core/occt_scope_guard: the settings of OCCT's Interface_Static table    *)
(* are one table for the whole process.  A guard locks the mutex kept for  *)
(* its key, writes settings, saving each one's value the first time it is  *)
(* written, and when it is destroyed writes the saved values back one by   *)
(* one before the mutex is released.                                       *)
(***************************************************************************)
EXTENDS Naturals, Functions

CONSTANTS Threads,   \* the worker threads
          Keys,      \* the keys guards are opened with (nullptr, contexts)
          Settings,  \* the names of the table
          Texts,     \* the values a setting may hold
          Original,  \* the table before the first call
          Unset,     \* a setting nobody has registered yet
          Empty,     \* the empty string
          Nobody     \* neither a thread nor a key

ASSUME GuardAssumption ==
    /\ Nobody \notin Threads /\ Nobody \notin Keys
    /\ Unset # Empty /\ Unset \notin Texts
    /\ Empty \in Texts
    /\ Original \in [Settings -> Texts \cup {Unset}]

VARIABLES owner,    \* who holds the mutex of each key
          statics,  \* the table
          guards    \* the guard each thread has open, if any

guardVars == <<owner, statics, guards>>

\* A thread without a guard.
NoGuard == [key |-> Nobody, saved |-> [s \in {} |-> Empty], closing |-> FALSE]

GuardInit == /\ owner = [k \in Keys |-> Nobody]
             /\ statics = Original
             /\ guards = [t \in Threads |-> NoGuard]

Holds(t) == guards[t].key # Nobody


\* The constructor: it waits until the key's mutex is free.
OpenGuard(t, k) ==
    /\ owner[k] = Nobody
    /\ owner' = [owner EXCEPT ![k] = t]
    /\ guards' = [guards EXCEPT ![t] = [NoGuard EXCEPT !.key = k]]
    /\ UNCHANGED statics

\* What a snapshot of a setting holds: a setting that was never registered
\* reads as the empty string, and cannot be unset again.
Snapshot(value) == IF value = Unset THEN Empty ELSE value


\* saveString_: only the first write of a setting takes a snapshot.
Saved(saved, s) ==
    [r \in DOMAIN saved \cup {s} |-> IF r \in DOMAIN saved THEN saved[r] ELSE Snapshot(statics[s])]

\* set.
SetStatic(t, s, value) ==
    /\ guards' = [guards EXCEPT ![t].saved = Saved(@, s)]
    /\ statics' = [statics EXCEPT ![s] = value]
    /\ UNCHANGED owner

\* The destructor begins; from here on the guard only restores.
BeginClose(t) ==
    /\ guards' = [guards EXCEPT ![t].closing = TRUE]
    /\ UNCHANGED <<owner, statics>>

\* The destructor writes one saved value back.
RestoreStatic(t, s) ==
    /\ guards[t].closing
    /\ s \in DOMAIN guards[t].saved
    /\ statics' = [statics EXCEPT ![s] = guards[t].saved[s]]
    /\ guards' = [guards EXCEPT ![t].saved = [r \in DOMAIN @ \ {s} |-> @[r]]]
    /\ UNCHANGED owner

\* Everything is restored; the lock, the first member, is destroyed last.
CloseGuard(t) ==
    /\ guards[t].closing
    /\ DOMAIN guards[t].saved = {}
    /\ owner' = [owner EXCEPT ![guards[t].key] = Nobody]
    /\ guards' = [guards EXCEPT ![t] = NoGuard]
    /\ UNCHANGED statics

\* A setting is as the process started with, or, if it was unset, empty.
AsFound(s) == statics[s] \in {Original[s], Snapshot(Original[s])}
=============================================================================
