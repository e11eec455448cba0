------------------------------ MODULE StoreFile ------------------------------
(***************************************************************************)
(* The JSON files the daemon's stores keep: every change replaces the      *)
(* whole file, by writeFile() of the store (workspaces.json, tokens.json,  *)
(* clients.json have the same).  Nothing orders two writes.  One write is  *)
(*   stat        the directory is looked up                                *)
(*   open        the store has been turned into text, the file is opened   *)
(*   write       the file is empty and the text is on its way              *)
(* A write that lands on top of another one since it opened the file may   *)
(* leave the longer one's tail behind: such a file is not JSON.            *)
(***************************************************************************)
CONSTANTS
  Ops,    \* asynchronous operations that may be writing at the same time
  NoText  \* stands for the text where there is none, or none that parses

VARIABLES
  disk,      \* [state, data]: what the file holds
  write,     \* write[o]: where the write of o is, and what it writes
  disturbed  \* history: the last write to end failed, or met another one

fileVars == <<disk, write, disturbed>>

(* Contents is the set of things a store can hold. *)
FileTypeOK(Contents) ==
  /\ disk \in [state : {"whole"}, data : Contents]
               \cup [state : {"empty", "garbled"}, data : {NoText}]
  /\ write \in [Ops -> [stage : {"none", "stat"}, data : {NoText}, alone : BOOLEAN]
                   \cup [stage : {"open", "write"}, data : Contents, alone : BOOLEAN]]
  /\ disturbed \in BOOLEAN

(* alone: no other write has been under way at any time of this one. *)
NoWrite == [stage |-> "none", data |-> NoText, alone |-> FALSE]

FileInit(data) ==
  /\ disk = [state |-> "whole", data |-> data]
  /\ write = [o \in Ops |-> NoWrite]
  /\ disturbed = FALSE

Stage(o) == write[o].stage

Settled == \A o \in Ops : Stage(o) = "none"

StartWrite(o) ==
  /\ write' = [p \in Ops |->
                 IF p = o
                 THEN [stage |-> "stat", data |-> NoText,
                       alone |-> \A other \in Ops \ {o} : Stage(other) = "none"]
                 ELSE [write[p] EXCEPT !.alone = FALSE]]
  /\ UNCHANGED disturbed

(* A caller has changed the store and calls writeFile(). *)
BeginWrite(o) ==
  /\ Stage(o) = "none"
  /\ StartWrite(o)
  /\ UNCHANGED disk

(* stat, or mkdir, is done: the store as it is now becomes the text. *)
Stringify(o, store) ==
  /\ Stage(o) = "stat"
  /\ write' = [write EXCEPT ![o].stage = "open", ![o].data = store]
  /\ UNCHANGED <<disk, disturbed>>

(* Opening for writing truncates. *)
OpenFile(o) ==
  /\ Stage(o) = "open"
  /\ write' = [write EXCEPT ![o].stage = "write"]
  /\ disk' = [state |-> "empty", data |-> NoText]
  /\ UNCHANGED disturbed

Landed(o) ==
  /\ Stage(o) = "write"
  /\ \/ disk' = [state |-> "whole", data |-> write[o].data]
     \/ /\ disk.state # "empty"
        /\ disk.data # write[o].data
        /\ disk' = [state |-> "garbled", data |-> NoText]

(* The write is complete; its caller goes on. *)
WriteDone(o) ==
  /\ Landed(o)
  /\ write' = [write EXCEPT ![o] = NoWrite]
  /\ disturbed' = ~write[o].alone

(* stat, open or write fails; a truncated file stays truncated, or has     *)
(* part of the text.                                                       *)
WriteFails(o) ==
  /\ Stage(o) # "none"
  /\ write' = [write EXCEPT ![o] = NoWrite]
  /\ disturbed' = TRUE
  /\ \/ UNCHANGED disk
     \/ Stage(o) = "write" /\ disk' = [state |-> "garbled", data |-> NoText]

(* The daemon dies: nothing more is written. *)
AbandonWrites ==
  /\ write' = [o \in Ops |-> NoWrite]
  /\ disturbed' = FALSE
  /\ UNCHANGED disk
=============================================================================
