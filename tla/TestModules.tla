----------------------------- MODULE TestModules -----------------------------
(***************************************************************************)
(* Loading, using and unloading the kernel test modules of                 *)
(* src/module_test: scc_test_driver.c, scc2_test_driver.c,                 *)
(* rng_test_driver.c and spdc_test_driver.c, over what they share in the   *)
(* kernel: the table of character devices, the modules' use counts and the *)
(* SCC driver's list of alarm callbacks.  What their ioctls do is in       *)
(* SccIoctl, Scc2Ioctl and RngDriver.                                      *)
(*                                                                         *)
(* rmmod has two steps: the kernel refuses a module that is in use and     *)
(* from then on fails try_module_get; later it calls the exit function.    *)
(* A file or a callback of a module that is gone is "dangling": using it runs *)
(* code that is no longer there (oops).                                    *)
(***************************************************************************)
EXTENDS Integers, FiniteSets

CONSTANTS
    Procs,      \* processes; each has at most one file of each driver
    Majors,     \* the major numbers of character devices
    MaxDebt,    \* bound: how far mmaps and uncounted opens lower a use count
    SCC_MAJOR   \* the module parameter scc_test_major_node; 0: choose one

ASSUME TestModulesAssumption ==
    /\ IsFiniteSet(Procs)
    /\ Majors \subseteq Nat \ {0}
    /\ MaxDebt \in Nat
    /\ SCC_MAJOR \in Majors \union {0}

Drivers == {"scc", "scc2", "rng", "spdc"}

VARIABLES
    mod,        \* "out", "class", "device" (spdc's init), "in" or "going"
    chrdev,     \* which driver each major number leads to
    reg_handle, \* the major number each driver's registration got; 0 if none
    node,       \* spdc's class and device
    major_node, \* scc_test_major_node
    rng_device_registered,
    monitors,   \* the loaded drivers whose alarm callback the SCC driver holds
    use,        \* the use count of each module
    files,      \* the processes that have each driver open
    dangling,   \* what outlived its module: a "file", an alarm "callback"
    other,      \* the major numbers some unrelated driver has registered
    oops        \* code of an unloaded module has been run

vars == <<mod, chrdev, reg_handle, node, major_node, rng_device_registered,
          monitors, use, files, dangling, other, oops>>

TypeOK ==
    /\ mod \in [Drivers -> {"out", "class", "device", "in", "going"}]
    /\ chrdev \in [Majors -> Drivers \union {"none", "other"}]
    /\ reg_handle \in [Drivers -> Majors \union {0}]
    /\ node \subseteq {"class", "device"}
    /\ major_node \in Majors \union {0}
    /\ rng_device_registered \in BOOLEAN
    /\ monitors \subseteq {"scc", "scc2"}
    /\ use \in [Drivers -> Int]
    /\ files \in [Drivers -> SUBSET Procs]
    /\ dangling \subseteq {"file", "callback"}
    /\ other \subseteq Majors
    /\ oops \in BOOLEAN

Init ==
    /\ mod = [d \in Drivers |-> "out"]
    /\ chrdev = [m \in Majors |-> "none"]
    /\ reg_handle = [d \in Drivers |-> 0]
    /\ node = {}
    /\ major_node = 0
    /\ rng_device_registered = FALSE
    /\ monitors = {}
    /\ use = [d \in Drivers |-> 0]
    /\ files = [d \in Drivers |-> {}]
    /\ dangling = {}
    /\ other = {}
    /\ oops = FALSE

-----------------------------------------------------------------------------
(* The kernel and its os_driver layer *)

\* register_chrdev and os_driver_complete_registration: d gets the major it
\* asks for if nobody has it, or for 0 some free one.
Registers(d, asked, m) ==
    /\ asked \in {0, m}
    /\ chrdev[m] = "none"
    /\ chrdev' = [chrdev EXCEPT ![m] = d]
    /\ reg_handle' = [reg_handle EXCEPT ![d] = m]

\* unregister_chrdev goes by the number, whoever has registered it.
unregister_chrdev(m) == chrdev' = [chrdev EXCEPT ![m] = "none"]

\* os_driver_remove_registration of a handle, empty if it was never completed,
\* and unregister_chrdev of spdc's gMajor.
remove_registration(d) ==
    /\ chrdev' = [m \in Majors |-> IF m = reg_handle[d] THEN "none" ELSE chrdev[m]]
    /\ reg_handle' = [reg_handle EXCEPT ![d] = 0]

\* The code and data of d are freed; its open files and the callback that
\* nobody takes back from the SCC driver are left.
Freed(d, callbacks) ==
    /\ mod' = [mod EXCEPT ![d] = "out"]
    /\ use' = [use EXCEPT ![d] = 0]
    /\ files' = [files EXCEPT ![d] = {}]
    /\ monitors' = callbacks \ {d}
    /\ dangling' = dangling \union {x \in {"file"} : files[d] # {}}
                            \union {x \in {"callback"} : d \in callbacks}

\* rmmod finds the module unused.
Rmmod(d) ==
    /\ ~oops
    /\ mod[d] = "in"
    /\ use[d] = 0
    /\ mod' = [mod EXCEPT ![d] = "going"]
    /\ UNCHANGED <<chrdev, reg_handle, node, major_node, rng_device_registered,
                   monitors, use, files, dangling, other, oops>>

\* An unrelated driver comes and goes.
OtherDriver(m) ==
    /\ ~oops
    /\ \/ /\ chrdev[m] = "none"
          /\ chrdev' = [chrdev EXCEPT ![m] = "other"]
          /\ other' = other \union {m}
       \/ /\ m \in other
          /\ chrdev' = [chrdev EXCEPT ![m] = IF @ = "other" THEN "none" ELSE @]
          /\ other' = other \ {m}
    /\ UNCHANGED <<mod, reg_handle, node, major_node, rng_device_registered,
                   monitors, use, files, dangling, oops>>

\* A process uses or closes a file whose driver is gone, or the SCC raises an
\* alarm, or a process sends SET_ALARM, and every callback runs: those of loaded
\* drivers print a line (scc_test_report_failure), the others are gone.
DanglingUse ==
    /\ ~oops
    /\ dangling # {}
    /\ oops' = TRUE
    /\ UNCHANGED <<mod, chrdev, reg_handle, node, major_node, rng_device_registered,
                   monitors, use, files, dangling, other>>

-----------------------------------------------------------------------------
(* scc_test_driver.c *)

\* The body of scc_test_cleanup: it goes by scc_test_major_node alone.
SccCleanup(n) ==
    /\ IF n # 0 THEN unregister_chrdev(n) ELSE UNCHANGED chrdev
    /\ major_node' = 0
    /\ reg_handle' = [reg_handle EXCEPT !["scc"] = 0]

\* insmod.  The status register may be unreadable and the registration may
\* fail; the callback is registered either way, then what failed is cleaned up.
scc_test_init ==
    /\ ~oops
    /\ mod["scc"] = "out"
    /\ \/ \E m \in Majors :
            /\ Registers("scc", SCC_MAJOR, m)
            /\ major_node' = SCC_MAJOR         \* code is OS_ERROR_OK_S, not a major
            /\ mod' = [mod EXCEPT !["scc"] = "in"]
            /\ monitors' = monitors \union {"scc"}
            /\ UNCHANGED <<use, files, dangling>>
       \/ /\ SccCleanup(SCC_MAJOR)
          /\ Freed("scc", monitors \union {"scc"})
    /\ UNCHANGED <<node, rng_device_registered, other, oops>>

scc_test_open(p) ==
    /\ ~oops
    /\ \E m \in Majors : chrdev[m] = "scc"
    /\ mod["scc"] \in {"in", "going"}
    /\ p \notin files["scc"]
    /\ mod["scc"] = "in" \/ use["scc"] > -MaxDebt
    /\ files' = [files EXCEPT !["scc"] = @ \union {p}]
    /\ use' = IF mod["scc"] = "in" THEN [use EXCEPT !["scc"] = @ + 1] ELSE use
    /\ UNCHANGED <<mod, chrdev, reg_handle, node, major_node, rng_device_registered,
                   monitors, dangling, other, oops>>

scc_test_release(p) ==
    /\ ~oops
    /\ p \in files["scc"]
    /\ files' = [files EXCEPT !["scc"] = @ \ {p}]
    /\ use' = [use EXCEPT !["scc"] = @ - 1]
    /\ UNCHANGED <<mod, chrdev, reg_handle, node, major_node, rng_device_registered,
                   monitors, dangling, other, oops>>

\* mmap(): setup_user_driver_interaction registers scc_test_release for it, so
\* nothing is mapped and the use count drops.
scc_mmap_entry(p) ==
    /\ ~oops
    /\ p \in files["scc"]
    /\ use["scc"] > -MaxDebt
    /\ use' = [use EXCEPT !["scc"] = @ - 1]
    /\ UNCHANGED <<mod, chrdev, reg_handle, node, major_node, rng_device_registered,
                   monitors, files, dangling, other, oops>>

scc_test_cleanup ==
    /\ ~oops
    /\ mod["scc"] = "going"
    /\ SccCleanup(major_node)
    /\ Freed("scc", monitors)
    /\ UNCHANGED <<node, rng_device_registered, other, oops>>

-----------------------------------------------------------------------------
(* scc2_test_driver.c *)

\* insmod: as scc_test_init, but the failed registration's empty handle is
\* removed; the major number is always chosen by the kernel.
scc2_test_init ==
    /\ ~oops
    /\ mod["scc2"] = "out"
    /\ \/ \E m \in Majors :
            /\ Registers("scc2", 0, m)
            /\ mod' = [mod EXCEPT !["scc2"] = "in"]
            /\ monitors' = monitors \union {"scc2"}
            /\ UNCHANGED <<use, files, dangling>>
       \/ /\ remove_registration("scc2")
          /\ Freed("scc2", monitors \union {"scc2"})
    /\ UNCHANGED <<node, major_node, rng_device_registered, other, oops>>

scc2_test_cleanup ==
    /\ ~oops
    /\ mod["scc2"] = "going"
    /\ remove_registration("scc2")
    /\ Freed("scc2", monitors)
    /\ UNCHANGED <<node, major_node, rng_device_registered, other, oops>>

-----------------------------------------------------------------------------
(* rng_test_driver.c *)

\* insmod; a registration that fails leaves nothing and is not cleaned up.
rng_test_init ==
    /\ ~oops
    /\ mod["rng"] = "out"
    /\ \E m \in Majors : Registers("rng", 0, m)
    /\ mod' = [mod EXCEPT !["rng"] = "in"]
    /\ rng_device_registered' = TRUE
    /\ UNCHANGED <<node, major_node, monitors, use, files, dangling, other, oops>>

rng_test_cleanup ==
    /\ ~oops
    /\ mod["rng"] = "going"
    /\ IF rng_device_registered THEN remove_registration("rng")
                                ELSE UNCHANGED <<chrdev, reg_handle>>
    /\ rng_device_registered' = FALSE
    /\ Freed("rng", monitors)
    /\ UNCHANGED <<node, major_node, other, oops>>

\* open and release of scc2 and rng do not touch the use count.
open_uncounted(d, p) ==
    /\ ~oops
    /\ \E m \in Majors : chrdev[m] = d
    /\ mod[d] \in {"in", "going"}
    /\ p \notin files[d]
    /\ files' = [files EXCEPT ![d] = @ \union {p}]
    /\ UNCHANGED <<mod, chrdev, reg_handle, node, major_node, rng_device_registered,
                   monitors, use, dangling, other, oops>>

release_uncounted(d, p) ==
    /\ ~oops
    /\ p \in files[d]
    /\ files' = [files EXCEPT ![d] = @ \ {p}]
    /\ UNCHANGED <<mod, chrdev, reg_handle, node, major_node, rng_device_registered,
                   monitors, use, dangling, other, oops>>

-----------------------------------------------------------------------------
(* spdc_test_driver.c *)

spdc_test_init_chrdev ==
    /\ ~oops
    /\ mod["spdc"] = "out"
    /\ \E m \in Majors : Registers("spdc", 0, m)
    /\ mod' = [mod EXCEPT !["spdc"] = "class"]
    /\ UNCHANGED <<node, major_node, rng_device_registered, monitors, use, files, dangling, other, oops>>

spdc_test_init_class ==
    /\ ~oops
    /\ mod["spdc"] = "class"
    /\ \/ /\ node' = node \union {"class"}
          /\ mod' = [mod EXCEPT !["spdc"] = "device"]
          /\ UNCHANGED <<chrdev, reg_handle, monitors, use, files, dangling>>
       \/ /\ remove_registration("spdc")
          /\ Freed("spdc", monitors)
          /\ UNCHANGED node
    /\ UNCHANGED <<major_node, rng_device_registered, other, oops>>

SpdcInitDeviceKeeps ==
    /\ ~oops
    /\ mod["spdc"] = "device"
    /\ \/ /\ node' = node \union {"device"}
          /\ mod' = [mod EXCEPT !["spdc"] = "in"]
          /\ UNCHANGED <<reg_handle, monitors, use, files, dangling>>
       \/ /\ node' = node \ {"class"}
          /\ reg_handle' = [reg_handle EXCEPT !["spdc"] = 0]
          /\ Freed("spdc", monitors)
    /\ UNCHANGED <<chrdev, major_node, rng_device_registered, other, oops>>

spdc_test_init_device ==
    /\ ~oops
    /\ mod["spdc"] = "device"
    /\ \/ /\ node' = node \union {"device"}
          /\ mod' = [mod EXCEPT !["spdc"] = "in"]
          /\ UNCHANGED <<chrdev, reg_handle, monitors, use, files, dangling>>
       \/ /\ node' = node \ {"class"}
          /\ remove_registration("spdc")
          /\ Freed("spdc", monitors)
    /\ UNCHANGED <<major_node, rng_device_registered, other, oops>>

SpdcOpenUncounted(p) ==
    /\ ~oops
    /\ "device" \in node
    /\ p \notin files["spdc"]
    /\ files' = [files EXCEPT !["spdc"] = @ \union {p}]
    /\ UNCHANGED <<mod, chrdev, reg_handle, node, major_node, rng_device_registered,
                   monitors, use, dangling, other, oops>>

\* The result of try_module_get is ignored: while the module is going the file
\* is opened without being counted.
spdc_test_open(p) ==
    /\ ~oops
    /\ "device" \in node
    /\ p \notin files["spdc"]
    /\ mod["spdc"] = "in" \/ use["spdc"] > -MaxDebt
    /\ files' = [files EXCEPT !["spdc"] = @ \union {p}]
    /\ use' = IF mod["spdc"] = "in" THEN [use EXCEPT !["spdc"] = @ + 1] ELSE use
    /\ UNCHANGED <<mod, chrdev, reg_handle, node, major_node, rng_device_registered,
                   monitors, dangling, other, oops>>

spdc_test_release(p) ==
    /\ ~oops
    /\ p \in files["spdc"]
    /\ files' = [files EXCEPT !["spdc"] = @ \ {p}]
    /\ use' = [use EXCEPT !["spdc"] = @ - 1]
    /\ UNCHANGED <<mod, chrdev, reg_handle, node, major_node, rng_device_registered,
                   monitors, dangling, other, oops>>

spdc_test_cleanup_module ==
    /\ ~oops
    /\ mod["spdc"] = "going"
    /\ remove_registration("spdc")
    /\ node' = node \ {"device", "class"}
    /\ Freed("spdc", monitors)
    /\ UNCHANGED <<major_node, rng_device_registered, other, oops>>

-----------------------------------------------------------------------------
Next ==
    \/ \E d \in Drivers : Rmmod(d)
    \/ \E m \in Majors : OtherDriver(m)
    \/ DanglingUse
    \/ scc_test_init
    \/ scc_test_cleanup
    \/ scc2_test_init
    \/ scc2_test_cleanup
    \/ rng_test_init
    \/ rng_test_cleanup
    \/ spdc_test_init_chrdev
    \/ spdc_test_init_class
    \/ spdc_test_init_device
    \/ spdc_test_cleanup_module
    \/ \E p \in Procs :
         \/ scc_test_open(p) \/ scc_test_release(p) \/ scc_mmap_entry(p)
         \/ spdc_test_open(p) \/ spdc_test_release(p)
         \/ \E d \in {"scc2", "rng"} : open_uncounted(d, p) \/ release_uncounted(d, p)

Spec == Init /\ [][Next]_vars

-----------------------------------------------------------------------------
(* Properties *)

\* After rmmod, and after an insmod that failed half way, no number leads to the
\* driver's freed code, and no class or device is left: scc_test_cleanup "deregisters
\* the SCC character device", rng_test_cleanup tries to "undo whatever was done
\* during rng_test_init", and spdc_test_init_module unwinds its own steps.
NodeRemoved ==
    /\ \A d \in Drivers : mod[d] = "out" => \A m \in Majors : chrdev[m] # d
    /\ mod["spdc"] = "out" => node = {}

\* rmmod of spdc_test_driver.c is accepted only when no process has the device
\* open, whatever opens and closes came before: open and release keep the count.
\* A file opened after that, while the module is going, is not counted.
UnloadSafe ==
    [][mod["spdc"] = "in" /\ mod'["spdc"] = "going" => files["spdc"] = {}]_vars

-----------------------------------------------------------------------------
(* What the source says and TLC refutes.  With SCC_MAJOR = 0 NodeRemoved fails as well. *)

\* scc_test_init: "any errors, we must undo what we've done", and scc_test_cleanup
\* "deregisters the interrupt handler(s)": no callback of an unloaded driver is left.
MonitorUndone == "callback" \notin dangling

\* scc_test_init: "any errors, we must undo what we've done", and not what
\* another driver has done: its major number stays its own.
OthersKept == \A m \in other : chrdev[m] = "other"

\* scc_test_release: "This function decrements the IN USE count.  It is called
\* during a close()."  So the use count is the number of open files.
SccInUse == mod["scc"] = "in" => use["scc"] = Cardinality(files["scc"])

\* scc2_test_open: "This function increments the IN USE count."
Scc2InUse == mod["scc2"] = "in" => use["scc2"] = Cardinality(files["scc2"])
=============================================================================
