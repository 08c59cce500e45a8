---------------------------- MODULE Conversation ----------------------------
(***************************************************************************)
(* What a thread of messages promises its readers, be it on a support      *)
(* ticket or on a task: what was said stays said, in the order it was      *)
(* said, until the whole thread is discarded for good; the first response  *)
(* is dated once, by the first answer or a message before it.  Which other *)
(* messages count as a response, internal notes for one, is left open.     *)
(***************************************************************************)
EXTENDS Integers, Sequences

CONSTANTS
    Thread,     \* the keys of threads
    Message,    \* what can be said
    At,         \* [Message -> Nat]: the dates of messages
    Answer,     \* the messages that are a response for certain
    None        \* no thread yet, or none any more; no date

VARIABLES
    said,       \* [Thread -> Seq(Message) or None]
    first,      \* [Thread -> date or None]
    gone        \* the threads discarded so far

Last(t) == IF said[t] = <<>> THEN 0 ELSE At[said[t][Len(said[t])]]

Init ==
    /\ said = [t \in Thread |-> None]
    /\ first = [t \in Thread |-> None]
    /\ gone = {}

Open(t) ==
    /\ said[t] = None
    /\ t \notin gone
    /\ said' = [said EXCEPT ![t] = <<>>]
    /\ UNCHANGED <<first, gone>>

Say(t, m) ==
    /\ said[t] # None
    /\ At[m] > Last(t)
    /\ said' = [said EXCEPT ![t] = Append(@, m)]
    /\ \/ first' = [first EXCEPT ![t] = IF @ = None THEN At[m] ELSE @]
       \/ m \notin Answer /\ UNCHANGED first
    /\ UNCHANGED gone

\* One thread, or all threads of what they are about.
Discard(dropped) ==
    /\ \A t \in dropped : said[t] # None
    /\ said' = [t \in Thread |-> IF t \in dropped THEN None ELSE said[t]]
    /\ first' = [t \in Thread |-> IF t \in dropped THEN None ELSE first[t]]
    /\ gone' = gone \cup dropped

Next ==
    \/ \E t \in Thread : Open(t) \/ \E m \in Message : Say(t, m)
    \/ \E dropped \in SUBSET Thread : Discard(dropped)

Spec == Init /\ [][Next]_<<said, first, gone>>

=============================================================================
