------------------------------ MODULE WaitExit ------------------------------
(***************************************************************************)
(* What fork, _exit and waitpid promise, told without process ids, table   *)
(* slots or condition variables: a tree of processes in which a dead child *)
(* stays a zombie exactly as long as its parent may still ask for it.      *)
(* PidTable.tla implements it (see PidTable!Abstract).                     *)
(***************************************************************************)
CONSTANTS Procs,      \* names of processes, the kernel's among them
          KProc,      \* the kernel process, which never exits
          Statuses,   \* exit statuses
          None        \* no process, no status

VARIABLES life,       \* life[p] \in {"none", "alive", "zombie"}
          parent,     \* the live process that may collect p, or None
          status,     \* the exit status of a zombie
          collected   \* what the last step handed to a parent, or None

avars == <<life, parent, status, collected>>

AInit == /\ life = [p \in Procs |-> IF p = KProc THEN "alive" ELSE "none"]
         /\ parent = [p \in Procs |-> None]
         /\ status = [p \in Procs |-> None]
         /\ collected = None

\* p gets the live child c.
AFork(p, c) == /\ life[p] = "alive"
               /\ life[c] = "none"
               /\ life' = [life EXCEPT ![c] = "alive"]
               /\ parent' = [parent EXCEPT ![c] = p]
               /\ collected' = None
               /\ UNCHANGED status

\* p dies with status s: its dead children are forgotten, the live ones become
\* orphans, and p itself is remembered only if it has a parent.
AExit(p, s) ==
  /\ p # KProc
  /\ life[p] = "alive"
  /\ LET gone == {c \in Procs : life[c] = "zombie" /\ parent[c] = p}
                 \cup (IF parent[p] = None THEN {p} ELSE {})
     IN /\ life' = [c \in Procs |-> IF c \in gone THEN "none"
                                    ELSE IF c = p THEN "zombie" ELSE life[c]]
        /\ status' = [c \in Procs |-> IF c \in gone THEN None
                                      ELSE IF c = p THEN s ELSE status[c]]
        /\ parent' = [c \in Procs |-> IF c \in gone \/ parent[c] = p
                                      THEN None ELSE parent[c]]
  /\ collected' = None

\* A parent asks for one of its dead children, once.  It is handed the status; None
\* if the address it gave for it was bad.
ACollect(p, c) == /\ life[c] = "zombie"
                  /\ parent[c] = p
                  /\ \E s \in {status[c], None} :
                       collected' = [by |-> p, child |-> c, status |-> s]
                  /\ life' = [life EXCEPT ![c] = "none"]
                  /\ parent' = [parent EXCEPT ![c] = None]
                  /\ status' = [status EXCEPT ![c] = None]

\* Every other step hands nothing over.
AOther == /\ collected' = None
          /\ UNCHANGED <<life, parent, status>>

ANext == \/ \E p, c \in Procs : AFork(p, c) \/ ACollect(p, c)
         \/ \E p \in Procs, s \in Statuses : AExit(p, s)
         \/ AOther

ASpec == AInit /\ [][ANext]_avars
=============================================================================
