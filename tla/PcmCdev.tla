------------------------------ MODULE PcmCdev ------------------------------
(***************************************************************************)
(* The character device that both drivers, pcm-unit and focus_test, are:   *)
(* loading and unloading the module, and opening and closing               *)
(* /dev/pcm_test.  pcm_test_mod.c is the same in the two but for what the  *)
(* ioctl runs.                                                             *)
(*                                                                         *)
(* External: the kernel's module loader, class and cdev registries.        *)
(***************************************************************************)
EXTENDS Naturals, Sequences

CONSTANTS
  Tasks,    \* the user programs
  CanFail,  \* the kernel calls of pcm_test_init that can fail
  Loads     \* bound: how often the module is loaded

ASSUME CdevAssumption ==
  /\ CanFail \subseteq {"alloc_chrdev_region", "cdev_add", "device_create"}
  /\ Loads \in Nat

VARIABLES
  module,   \* "out", "init", "live", "exit"
  mpc,      \* what init or exit did so far
  held,     \* what the module holds in the kernel
  failed,   \* the calls of the present load that failed
  loads,    \* how often the module was loaded
  task      \* what each task does: "out", "path", "opened", "ioctl"

moduleVars == <<module, mpc, held, failed, loads>>
cdevVars   == <<moduleVars, task>>

CdevInit ==
  /\ module = "out" /\ mpc = 1 /\ held = {} /\ failed = {} /\ loads = 0
  /\ task = [t \in Tasks |-> "out"]

(***************************************************************************)
(* The module.  The result of pcm_cdev_init is dropped: pcm_cdev_add goes  *)
(* on, with major number 0, under which device_create makes no node.       *)
(***************************************************************************)
init_calls == <<"alloc_chrdev_region", "class_create", "kmalloc", "cdev_add",
                "device_create">>
Acquired(f) == CASE f = "alloc_chrdev_region" -> "region"
                 [] f = "class_create"        -> "class"
                 [] f = "kmalloc"             -> "memory"
                 [] f = "cdev_add"            -> "cdev"
                 [] f = "device_create"       -> "node"

\* Mutants of exit_calls.
ClassForgotten == <<"node", "cdev", "memory", "region">>
FreedTooSoon   == <<"node", "class", "memory", "cdev", "region">>

\* device_destroy, class_destroy, cdev_del, kfree, unregister_chrdev_region.
exit_calls == <<"node", "class", "cdev", "memory", "region">>

\* The names must be free: a load that failed leaves its class behind.
insmod ==
  /\ module = "out" /\ loads < Loads /\ held = {}
  /\ module' = "init" /\ mpc' = 1 /\ failed' = {} /\ loads' = loads + 1
  /\ UNCHANGED <<held, task>>

Makes(f) ==
  /\ held' = IF f = "device_create" /\ "alloc_chrdev_region" \in failed
               THEN held ELSE held \union {Acquired(f)}
  /\ UNCHANGED failed
Fails(f) == f \in CanFail /\ failed' = failed \union {f} /\ UNCHANGED held

pcm_test_init ==
  /\ module = "init" /\ mpc <= Len(init_calls) /\ "cdev_add" \notin failed
  /\ Makes(init_calls[mpc]) \/ Fails(init_calls[mpc])
  /\ mpc' = mpc + 1
  /\ UNCHANGED <<module, loads, task>>

\* insmod gets the result of cdev_add.
InitReturns ==
  /\ module = "init"
  /\ \/ "cdev_add" \in failed /\ module' = "out"
     \/ mpc > Len(init_calls) /\ "cdev_add" \notin failed /\ module' = "live"
  /\ mpc' = 1
  /\ UNCHANGED <<held, failed, loads, task>>

\* Mutant of Pinned: the owner is left out.
Unowned == FALSE

\* .owner = THIS_MODULE: an open file keeps the module.
Pinned == \E t \in Tasks : task[t] \in {"opened", "ioctl"}

rmmod ==
  /\ module = "live" /\ ~Pinned
  /\ module' = "exit" /\ mpc' = 1
  /\ UNCHANGED <<held, failed, loads, task>>

pcm_cdev_exit ==
  /\ module = "exit"
  /\ IF mpc <= Len(exit_calls)
       THEN held' = held \ {exit_calls[mpc]} /\ mpc' = mpc + 1 /\ UNCHANGED module
       ELSE module' = "out" /\ mpc' = 1 /\ UNCHANGED held
  /\ UNCHANGED <<failed, loads, task>>

(***************************************************************************)
(* The files.                                                              *)
(***************************************************************************)
Move(t, to) == task' = [task EXCEPT ![t] = to]

\* open finds /dev/pcm_test; then the cdev under its number, if the module
\* is not about to leave.
FindNode(t) ==
  /\ task[t] = "out" /\ "node" \in held
  /\ Move(t, "path")
  /\ UNCHANGED moduleVars
pcm_cdev_open(t) ==
  /\ task[t] = "path"
  /\ Move(t, IF "cdev" \in held /\ module # "exit" THEN "opened" ELSE "out")
  /\ UNCHANGED moduleVars

pcm_cdev_release(t) ==
  /\ task[t] = "opened"
  /\ Move(t, "out")
  /\ UNCHANGED moduleVars

\* What a driver does with an open file, between the two moves of its task.
EnterIoctl(t) == task[t] = "opened" /\ Move(t, "ioctl") /\ UNCHANGED moduleVars
LeaveIoctl(t) == task[t] = "ioctl" /\ Move(t, "opened") /\ UNCHANGED moduleVars

ModuleStep == insmod \/ pcm_test_init \/ InitReturns \/ rmmod \/ pcm_cdev_exit
FileStep(t) == FindNode(t) \/ pcm_cdev_open(t) \/ pcm_cdev_release(t)
IoctlMove(t) == EnterIoctl(t) \/ LeaveIoctl(t)

CdevNext == ModuleStep \/ \E t \in Tasks : FileStep(t) \/ IoctlMove(t)
CdevSpec == CdevInit /\ [][CdevNext]_cdevVars

-----------------------------------------------------------------------------
Resources == {"region", "class", "memory", "cdev", "node"}

\* The types of the device's own variables.
CdevTypeOK ==
  /\ module \in {"out", "init", "live", "exit"} /\ mpc \in 1 .. 6
  /\ held \subseteq Resources /\ failed \subseteq CanFail /\ loads \in 0 .. Loads
  /\ task \in [Tasks -> {"out", "path", "opened", "ioctl"}]

\* A file that is open, and an ioctl on it, outlive neither the module's code
\* nor the pcm_cdev that pcm_cdev_open put into private_data.
OpenKeepsDevice ==
  \A t \in Tasks : task[t] \in {"opened", "ioctl"} =>
    module \in {"init", "live"} /\ {"cdev", "memory"} \subseteq held

\* At no step of init or exit does the kernel hold a pointer into what is gone:
\* a registered cdev has its memory, a device node has its class.
NothingDangles ==
  /\ "cdev" \in held => "memory" \in held
  /\ "node" \in held => "class" \in held

\* rmmod gives back all that insmod acquired, whatever else failed in it, so
\* that reload.sh can load the module again.  (A load that fails in cdev_add
\* does not.)
UnloadReleasesAll ==
  module = "out" /\ "cdev_add" \notin failed => held = {}
=============================================================================
