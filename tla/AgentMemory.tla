---------------------------- MODULE AgentMemory ----------------------------
(***************************************************************************)
(* The agent's memory file (crates/signal-ha-agent/src/memory.rs).  A save *)
(* replaces the memory in the process first, then empties the file and     *)
(* writes it anew; it may fail, or the process may end, in between.  A     *)
(* file that cannot be parsed counts as no memory at all.                  *)
(*                                                                         *)
(* Left out: the update time and the save counter beside the content.      *)
(***************************************************************************)
CONSTANTS
    Notes,          \* what an agent may remember
    Empty,          \* no memory
    Torn            \* a file that was not written to its end

ASSUME MemoryAssumption == Empty \notin Notes /\ Torn \notin Notes /\ Empty # Torn

VARIABLES
    disk,           \* the memory file; Empty if there is none
    content,        \* the memory in the process
    acked           \* history: the last save was reported done, with this content

memoryVars == <<disk, content, acked>>

MemoryInit == disk = Empty /\ content = Empty /\ acked = {Empty}

\* Memory::load(), and Memory::empty() when the file cannot be read
Load ==
    /\ content' = IF disk = Torn THEN Empty ELSE disk
    /\ UNCHANGED <<disk, acked>>

LoadFails ==
    /\ content' = Empty
    /\ UNCHANGED <<disk, acked>>

\* save() up to the opening of the file
BeginSave(note) ==
    /\ content' = note
    /\ disk' = Torn
    /\ acked' = {}

\* save() without getting as far: the directory or the file cannot be made
RefuseSave(note) ==
    /\ content' = note
    /\ acked' = {}
    /\ UNCHANGED disk

\* Mutation: the save is reported done while the file is still being written.
EndSaveEarly ==
    /\ acked' = {content}
    /\ UNCHANGED <<disk, content>>

EndSave ==
    /\ disk' = content
    /\ acked' = {content}
    /\ UNCHANGED content

BreakSave == UNCHANGED memoryVars

\* The memory of an ended session, or of an ended process, is gone.
Forget ==
    /\ content' = Empty
    /\ UNCHANGED <<disk, acked>>
=============================================================================
