------------------------------ MODULE Lifecycle ------------------------------
(***************************************************************************)
(* Runs of the program from main to exit, as far as they last in the       *)
(* operating system: the two files it maps, keyboardBuffer and crtBuffer,  *)
(* and its two child processes.  The files outlive a run and meet the      *)
(* next.                                                                   *)
(*                                                                         *)
(* A step is one or two system calls, and signals land between any two.  A *)
(* second SIGINT during cleanup repeats what is done already and adds no   *)
(* step.  One run at a time: a new one starts when no child of the last is *)
(* left.  What a signal does to the queues is in Preemption and            *)
(* Interrupts.                                                             *)
(***************************************************************************)
EXTENDS Naturals

VARIABLES
  pc,        \* what the RTX does next
  children,  \* what became of its children
  IN_PID,    \* the children whose pid, or -1, it has stored; the other pids are 0
  SIGINT,    \* who of the process group has a SIGINT pending
  faulted,   \* the RTX is in die because of a SIGSEGV
  files,     \* the files that exist
  life       \* where the run is, or how the last one came to its end

lifeVars == <<pc, children, IN_PID, SIGINT, faulted, files, life>>

Children == {"keyboard", "crt"}
Files    == {"keyboardBuffer", "crtBuffer"}

Booting == {"open_keyboard", "open_crt", "fork_keyboard", "store_keyboard",
            "fork_crt", "store_crt", "mmap"}

CopyDies == {"kill", "unlink_keyboard", "unlink_crt"}   \* cleanup in a child

Alive == {c \in Children : children[c] \notin {"none", "dead"}}

LifeInit ==
  /\ pc = "off" /\ life = "none"
  /\ children = [c \in Children |-> "none"]
  /\ IN_PID = {} /\ SIGINT = {} /\ faulted = FALSE
  /\ files = {}

-----------------------------------------------------------------------------
(* Boot. *)

At(label)   == pc = label
Goto(label) == pc' = label

(* The RTX is gone; its children are not told. *)
Ends(how) ==
  /\ Goto("off") /\ life' = how
  /\ IN_PID' = {} /\ faulted' = FALSE

Continues == UNCHANGED <<life, IN_PID, faulted>>

(* main up to init_signals.  If a malloc fails nothing has happened yet: the SIGINT that
   cleanup sends to pid 0, its own group, finds no handler and ends the program. *)
main ==
  /\ At("off") /\ Alive = {}
  /\ Goto("open_keyboard") /\ life' = "booting"
  /\ children' = [c \in Children |-> "none"] /\ SIGINT' = {}
  /\ UNCHANGED <<IN_PID, faulted, files>>

(* open with O_EXCL refuses a file that exists, and may fail otherwise: exit(0). *)
OpenFile(label, f, next) ==
  /\ At(label)
  /\ \/ f \notin files /\ files' = files \cup {f} /\ Goto(next) /\ Continues
     \/ Ends("exit") /\ UNCHANGED files
  /\ UNCHANGED <<children, SIGINT>>

(* When ftruncate fails the program exits and leaves both files. *)
ftruncate_fails ==
  /\ At("fork_keyboard") /\ Ends("exit")
  /\ UNCHANGED <<children, SIGINT, files>>

(* fork, and the assignment of the pid it returns: a signal may land between the two. *)
Fork(c) ==
  /\ \/ At("fork_keyboard") /\ c = "keyboard" /\ Goto("store_keyboard")
     \/ At("fork_crt") /\ c = "crt" /\ Goto("store_crt")
  /\ children' = [children EXCEPT ![c] = "copy"]
  /\ Continues /\ UNCHANGED <<SIGINT, files>>

(* The -1 of a fork that fails is taken for a pid: the run goes on without the child. *)
fork_fails(c) ==
  /\ \/ At("fork_keyboard") /\ c = "keyboard" /\ Goto("fork_crt")
     \/ At("fork_crt") /\ c = "crt" /\ Goto("mmap")
  /\ IN_PID' = IN_PID \cup {c}
  /\ UNCHANGED <<children, SIGINT, faulted, files, life>>

StorePid(c) ==
  /\ \/ At("store_keyboard") /\ c = "keyboard" /\ Goto("fork_crt")
     \/ At("store_crt") /\ c = "crt" /\ Goto("mmap")
  /\ IN_PID' = IN_PID \cup {c}
  /\ UNCHANGED <<children, SIGINT, faulted, files, life>>

(* A failing mmap calls die. *)
mmap ==
  /\ At("mmap")
  /\ \/ Goto("running") /\ life' = "running"
     \/ Goto("kill") /\ UNCHANGED life
  /\ UNCHANGED <<children, IN_PID, SIGINT, faulted, files>>

-----------------------------------------------------------------------------
(* A child: until execl a copy of the RTX, with its handlers. *)

Child(c, from, to) == children[c] = from /\ children' = [children EXCEPT ![c] = to]

execl(c) ==
  /\ Child(c, "copy", "running")
  /\ UNCHANGED <<pc, IN_PID, SIGINT, faulted, files, life>>

(* A failing execl runs cleanup in the copy. *)
execl_fails(c) ==
  /\ Child(c, "copy", "kill")
  /\ UNCHANGED <<pc, IN_PID, SIGINT, faulted, files, life>>

(* Mutant: a pid that is 0 is passed over. *)
CopyKills_KnownOnly(c) ==
  /\ Child(c, "kill", "unlink_keyboard")
  /\ SIGINT' = SIGINT \cup (IN_PID \cap Alive)
  /\ UNCHANGED files

(* Its own pid is 0 in the copy: the whole group is interrupted. *)
CopyKills(c) ==
  /\ Child(c, "kill", "unlink_keyboard")
  /\ SIGINT' = SIGINT \cup Alive \cup {"rtx"}
  /\ UNCHANGED files

CopyCleanup(c) ==
  /\ \/ CopyKills(c)
     \/ /\ Child(c, "unlink_keyboard", "unlink_crt")
        /\ files' = files \ {"keyboardBuffer"} /\ UNCHANGED SIGINT
     \/ /\ Child(c, "unlink_crt", "dead")
        /\ files' = files \ {"crtBuffer"} /\ UNCHANGED SIGINT
  /\ UNCHANGED <<pc, IN_PID, faulted, life>>

(* SIGINT ends a child, by in_die or by default; in a copy it is still die. *)
ChildInterrupted(c) ==
  /\ c \in SIGINT
  /\ Child(c, "copy", "kill") \/ Child(c, "running", "dead")
  /\ SIGINT' = SIGINT \ {c}
  /\ UNCHANGED <<pc, IN_PID, faulted, files, life>>

-----------------------------------------------------------------------------
(* The end. *)

HandlersInstalled == pc \in Booting \cup {"running"}

die ==
  /\ HandlersInstalled /\ "rtx" \in SIGINT
  /\ Goto("kill") /\ SIGINT' = SIGINT \ {"rtx"}
  /\ Continues /\ UNCHANGED <<children, files>>

(* Control-C interrupts the group of a foreground program. *)
ControlC ==
  /\ HandlersInstalled /\ SIGINT' = Alive \cup {"rtx"}
  /\ Continues /\ UNCHANGED <<pc, children, files>>

(* The command t, and SIGTERM, SIGHUP and the like from outside. *)
terminate ==
  /\ HandlersInstalled /\ Goto("kill")
  /\ Continues /\ UNCHANGED <<children, SIGINT, files>>

(* The command n with a pid that pid_to_pcb answers with NULL, or with what lies behind
   PCB_LIST: SIGSEGV. *)
change_priority_faults ==
  /\ At("running") /\ Goto("kill")
  /\ faulted' = TRUE
  /\ UNCHANGED <<children, IN_PID, SIGINT, files, life>>

(* Mutant: a pid that is 0 is passed over. *)
cleanup_kill_KnownOnly ==
  /\ At("kill") /\ Goto("unlink_keyboard")
  /\ SIGINT' = SIGINT \cup (IN_PID \cap Alive)
  /\ Continues /\ UNCHANGED <<children, files>>

(* Both pids are signalled, one that is still 0 meaning the whole group and -1 every process
   of the user but the caller; then the pages are unmapped. *)
cleanup_kill ==
  /\ At("kill") /\ Goto("unlink_keyboard")
  /\ SIGINT' = SIGINT \cup Alive \cup (IF IN_PID = Children THEN {} ELSE {"rtx"})
  /\ Continues /\ UNCHANGED <<children, files>>

(* The files go, then the queues and tables, and the process exits. *)
cleanup_unlink ==
  /\ \/ At("unlink_keyboard") /\ Goto("unlink_crt") /\ files' = files \ {"keyboardBuffer"}
                              /\ Continues
     \/ At("unlink_crt") /\ Ends("cleanup") /\ files' = files \ {"crtBuffer"}
  /\ UNCHANGED <<children, SIGINT>>

(* A line comes during cleanup, and the CCI had asked for it: kbd_i_proc reads the page
   that is no longer mapped.  SIGSEGV runs die and cleanup once more; inside the handler of
   SIGSEGV it kills. *)
kbd_i_proc_faults ==
  /\ pc \in {"unlink_keyboard", "unlink_crt"} /\ life = "running"
  /\ IF faulted THEN Ends("killed")
     ELSE Goto("kill") /\ faulted' = TRUE /\ UNCHANGED <<life, IN_PID>>
  /\ UNCHANGED <<children, SIGINT, files>>

(* SIGKILL. *)
Killed ==
  /\ pc # "off" /\ Ends("killed")
  /\ UNCHANGED <<children, SIGINT, files>>

(* A child that is left behind stays until somebody ends it by hand. *)
OrphanKilled(c) ==
  /\ At("off") /\ Child(c, "running", "dead")
  /\ UNCHANGED <<pc, IN_PID, SIGINT, faulted, files, life>>

-----------------------------------------------------------------------------
Rtx ==
  \/ OpenFile("open_keyboard", "keyboardBuffer", "open_crt")
  \/ OpenFile("open_crt", "crtBuffer", "fork_keyboard")
  \/ ftruncate_fails
  \/ \E c \in Children : Fork(c) \/ fork_fails(c) \/ StorePid(c)
  \/ mmap \/ die \/ cleanup_kill \/ cleanup_unlink

ChildStep(c) == execl(c) \/ execl_fails(c) \/ CopyCleanup(c) \/ ChildInterrupted(c)

LifeNext ==
  \/ main
  \/ OpenFile("open_keyboard", "keyboardBuffer", "open_crt")
  \/ OpenFile("open_crt", "crtBuffer", "fork_keyboard")
  \/ ftruncate_fails
  \/ \E c \in Children : Fork(c) \/ fork_fails(c) \/ StorePid(c)
  \/ mmap
  \/ \E c \in Children : execl(c) \/ execl_fails(c) \/ CopyCleanup(c) \/ ChildInterrupted(c)
  \/ die \/ ControlC \/ terminate \/ change_priority_faults
  \/ cleanup_kill \/ cleanup_unlink \/ kbd_i_proc_faults
  \/ Killed
  \/ \E c \in Children : OrphanKilled(c)

(* The RTX and its children run and get their signals; nobody need start, stop or kill
   anything. *)
LifeSpec ==
  /\ LifeInit /\ [][LifeNext]_lifeVars
  /\ WF_lifeVars(Rtx) /\ \A c \in Children : WF_lifeVars(ChildStep(c))
-----------------------------------------------------------------------------
(* Properties. *)

(* "This stuff must be cleaned up or we have child processes and shared memory hanging
   around after the main process terminates" (cleanup.c:5): wherever the signal landed that
   brought cleanup about, between fork and the store of the pid or inside cleanup itself,
   at its end the files are gone, and each child is dead or about to die. *)
NothingLeftBehind ==
  life = "cleanup" =>
    /\ files = {}
    /\ \A c \in Alive : c \in SIGINT \/ children[c] \in CopyDies

(* As long as nobody has interrupted the RTX both files exist, so that O_EXCL refuses a
   second one (rtx_init.c:109): whatever removes a file, in the RTX or in a child that
   could not be executed, has told the RTX first. *)
FilesGuardTheRun ==
  pc \in (Booting \ {"open_keyboard", "open_crt"}) \cup {"running"} /\ "rtx" \notin SIGINT
    => files = Files

(* If a child cannot be executed the whole program ends, the RTX and the other child, by
   the SIGINT that the copy sends to pid 0 (rtx_init.c:157): no RTX goes on with half a
   console.  Only SIGKILL, which spares the children, can leave one. *)
FailedExecEndsAll ==
  (\E c \in Children : children[c] = "kill") ~> (pc = "off" /\ (Alive = {} \/ life = "killed"))
=============================================================================
