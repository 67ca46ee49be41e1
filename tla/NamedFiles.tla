----------------------------- MODULE NamedFiles -----------------------------
(***************************************************************************)
(* What the callers of a file system see of its directory: names stand for *)
(* files, a file lives as long as it has a name or somebody has it open,   *)
(* and keeps the blocks written to it until they are cut off.  Every call  *)
(* takes effect as a whole or not at all, even if the disk fails; only     *)
(* what a truncation cuts off may stay.  Whether a volume is mounted makes *)
(* no difference to what is on it.  Sfs.tla implements this until the      *)
(* system has stopped, by which it means a panic, or a failed write-back   *)
(* of an indirect block, past which the code itself goes on.               *)
(***************************************************************************)
EXTENDS Naturals

CONSTANTS Threads, Names, Files, FileBlocks, None

VARIABLES named,      \* named[n] is the file called n, or None
          open,       \* open[t] is the file t has open, or None
          blocks,     \* the blocks of each file, empty for one that does not live
          stopped     \* nothing is promised any more

avars == <<named, open, blocks, stopped>>

Lives(f) == (\E n \in Names : named[n] = f) \/ (\E t \in Threads : open[t] = f)

AInit == /\ named = [n \in Names |-> None]
         /\ open = [t \in Threads |-> None]
         /\ blocks = [f \in Files |-> {}]
         /\ stopped = FALSE

\* A call that fails, or only looks.
AFail == UNCHANGED avars

AOpen(t, n) == /\ open[t] = None
               /\ named[n] # None
               /\ open' = [open EXCEPT ![t] = named[n]]
               /\ UNCHANGED <<named, blocks>>

ACreate(t, n, f) == /\ open[t] = None
                    /\ named[n] = None
                    /\ ~Lives(f)
                    /\ named' = [named EXCEPT ![n] = f]
                    /\ open' = [open EXCEPT ![t] = f]
                    /\ UNCHANGED blocks

\* Files lose names and users; the last one takes the blocks with it.
Forget == blocks' = [f \in Files |-> IF Lives(f)' THEN blocks[f] ELSE {}]

AClose(t) == /\ open[t] # None
             /\ open' = [open EXCEPT ![t] = None]
             /\ UNCHANGED named
             /\ Forget

ARemove(n) == /\ named[n] # None
              /\ named' = [named EXCEPT ![n] = None]
              /\ UNCHANGED open
              /\ Forget

ALink(t, n) == /\ open[t] # None
               /\ named[n] = None
               /\ named' = [named EXCEPT ![n] = open[t]]
               /\ UNCHANGED <<open, blocks>>

ARename(m, n) == /\ named[m] # None
                 /\ named[n] = None
                 /\ named' = [named EXCEPT ![n] = named[m], ![m] = None]
                 /\ UNCHANGED <<open, blocks>>

AWrite(t, i) == \E f \in Files :
  /\ open[t] = f
  /\ blocks' = [blocks EXCEPT ![f] = @ \cup {i}]
  /\ UNCHANGED <<named, open>>

\* Nothing before block len goes.
ATruncate(t, len) == \E f \in Files :
  /\ open[t] = f
  /\ \E gone \in SUBSET {i \in FileBlocks : i >= len} :
       blocks' = [blocks EXCEPT ![f] = @ \ gone]
  /\ UNCHANGED <<named, open>>

ANext == \/ AFail
         \/ ~stopped /\ stopped'
         \/ /\ ~stopped /\ ~stopped'
            /\ \/ \E n \in Names : ARemove(n) \/ \E m \in Names : ARename(m, n)
               \/ \E t \in Threads :
                    \/ AClose(t)
                    \/ \E n \in Names : AOpen(t, n) \/ ALink(t, n) \/ \E f \in Files : ACreate(t, n, f)
                    \/ \E i \in FileBlocks : AWrite(t, i) \/ ATruncate(t, i)

ASpec == AInit /\ [][ANext]_avars
=============================================================================
