-------------------------- MODULE TestModulesProofs --------------------------
(***************************************************************************)
(* What the test drivers promise.                                          *)
(*                                                                         *)
(* TestModules, for any number of processes and any major numbers, when    *)
(* the parameter scc_test_major_node is not 0.  The step that removes a    *)
(* node goes by the number a driver has kept, so NodeRemoved rests on      *)
(* every number that leads to a driver being the one it has kept (RegInv); *)
(* a failing scc_test_init may also unregister another driver, which       *)
(* RegInv survives.  UnloadSafe rests on spdc's use count.                 *)
(*                                                                         *)
(* RngDriver, for any number of threads, files and contexts.               *)
(* ContextsExact is restated file by file, with the fact that a live file  *)
(* always has a context; BufferFreed needs that a handler starts without a *)
(* buffer.                                                                 *)
(***************************************************************************)
EXTENDS TestModules, RngDriver, FiniteSetTheorems, TLAPS

\* A number that leads to a driver is the one the driver has kept.
RegInv ==
    \A d \in Drivers, m \in Majors : chrdev[m] = d => reg_handle[d] = m /\ mod[d] # "out"

\* What scc_test_cleanup and rng_test_cleanup look at.
KeptInv ==
    /\ mod["scc"] # "out" => major_node = reg_handle["scc"]
    /\ mod["rng"] # "out" => rng_device_registered

\* spdc_test_init_module makes the class, then the device.
NodeInv ==
    /\ mod["spdc"] \in {"out", "class"} => node = {}
    /\ mod["spdc"] = "device" => node = {"class"}
    /\ mod["spdc"] \in {"in", "going"} => node = {"class", "device"}

\* The use count of spdc while it is loaded; nobody can open it before.
UseInv ==
    /\ mod["spdc"] = "in" => use["spdc"] = Cardinality(files["spdc"])
    /\ mod["spdc"] \notin {"in", "going"} => use["spdc"] = 0 /\ files["spdc"] = {}

Inv == TypeOK /\ RegInv /\ KeptInv /\ NodeInv /\ UseInv

\* Nothing of spdc that NodeInv and UseInv look at has changed.
SpdcSame == mod'["spdc"] = mod["spdc"] /\ node' = node
              /\ use'["spdc"] = use["spdc"] /\ files'["spdc"] = files["spdc"]

-----------------------------------------------------------------------------
\* A driver that was not loaded gets a number and keeps it.
LEMMA RegistersKeeps ==
    ASSUME Inv, NEW d \in Drivers, NEW m \in Majors, NEW asked, mod[d] = "out",
           Registers(d, asked, m), NEW s, s # "out", mod' = [mod EXCEPT ![d] = s]
    PROVE  RegInv'
  <1> SUFFICES ASSUME NEW e \in Drivers, NEW n \in Majors, chrdev'[n] = e
               PROVE  reg_handle'[e] = n /\ mod'[e] # "out"
    BY DEF RegInv
  <1>1. CASE n = m
    BY <1>1 DEF Inv, TypeOK, Registers
  <1>2. CASE n # m
    <2>1. chrdev[n] = e
      BY <1>2 DEF Inv, TypeOK, Registers
    <2>2. reg_handle[e] = n /\ mod[e] # "out" /\ e # d
      BY <2>1 DEF Inv, RegInv
    <2> QED
      BY <2>2 DEF Inv, TypeOK, Registers
  <1> QED
    BY <1>1, <1>2

\* Removing the number a driver has kept removes every way to it.
LEMMA RemoveKeeps ==
    ASSUME Inv, NEW d \in Drivers, remove_registration(d), mod' = [mod EXCEPT ![d] = "out"]
    PROVE  RegInv'
  <1> SUFFICES ASSUME NEW e \in Drivers, NEW n \in Majors, chrdev'[n] = e
               PROVE  reg_handle'[e] = n /\ mod'[e] # "out"
    BY DEF RegInv
  <1>1. n # reg_handle[d] /\ chrdev[n] = e
    BY DEF remove_registration, Drivers
  <1>2. reg_handle[e] = n /\ mod[e] # "out" /\ e # d
    BY <1>1 DEF Inv, RegInv
  <1> QED
    BY <1>2 DEF Inv, TypeOK, remove_registration

\* scc_test_cleanup with the number that was kept, or before any was.
LEMMA SccCleanupKeeps ==
    ASSUME Inv, NEW n \in Majors, SccCleanup(n), mod' = [mod EXCEPT !["scc"] = "out"],
           mod["scc"] = "out" \/ n = reg_handle["scc"]
    PROVE  RegInv'
  <1> SUFFICES ASSUME NEW e \in Drivers, NEW k \in Majors, chrdev'[k] = e
               PROVE  reg_handle'[e] = k /\ mod'[e] # "out"
    BY DEF RegInv
  <1>1. n # 0
    BY TestModulesAssumption DEF TestModulesAssumption
  <1>2. k # n /\ chrdev[k] = e
    BY <1>1 DEF SccCleanup, unregister_chrdev, Drivers, Inv, TypeOK
  <1>3. reg_handle[e] = k /\ mod[e] # "out" /\ e # "scc"
    BY <1>2 DEF Inv, RegInv
  <1> QED
    BY <1>3 DEF Inv, TypeOK, SccCleanup

\* Steps that leave the registrations of the four drivers alone.
LEMMA RegSame ==
    ASSUME Inv, UNCHANGED <<chrdev, reg_handle>>, \A d \in Drivers : mod'[d] = "out" => mod[d] = "out"
    PROVE  RegInv'
  BY DEF Inv, RegInv

\* Steps of the other drivers.
LEMMA SpdcKept == Inv /\ SpdcSame => NodeInv' /\ UseInv'
  BY DEF Inv, SpdcSame, NodeInv, UseInv

\* The set of processes that have a driver open is finite.
LEMMA FilesFinite ==
    ASSUME TypeOK, NEW d \in Drivers
    PROVE  IsFiniteSet(files[d]) /\ Cardinality(files[d]) \in Nat
  <1>1. files[d] \subseteq Procs
    BY DEF TypeOK
  <1> QED
    BY <1>1, TestModulesAssumption, FS_Subset, FS_CardinalityType DEF TestModulesAssumption

\* What the loader does when a module's code is freed.
LEMMA FreedTypes ==
    ASSUME TypeOK, NEW d \in Drivers, NEW cb \in SUBSET {"scc", "scc2"}, Freed(d, cb)
    PROVE  /\ mod' \in [Drivers -> {"out", "class", "device", "in", "going"}]
           /\ use' \in [Drivers -> Int]
           /\ files' \in [Drivers -> SUBSET Procs]
           /\ monitors' \subseteq {"scc", "scc2"}
           /\ dangling' \subseteq {"file", "callback"}
  <1>1. mod' \in [Drivers -> {"out", "class", "device", "in", "going"}] /\ use' \in [Drivers -> Int]
    BY DEF TypeOK, Freed
  <1>2. files' \in [Drivers -> SUBSET Procs] /\ monitors' \subseteq {"scc", "scc2"}
    BY DEF TypeOK, Freed
  <1>3. dangling' \subseteq {"file", "callback"}
    BY DEF TypeOK, Freed
  <1> QED
    BY <1>1, <1>2, <1>3

-----------------------------------------------------------------------------
\* Init establishes the invariant: nothing is loaded.
LEMMA InitInv == Init => Inv
  <1> SUFFICES ASSUME Init PROVE Inv
    OBVIOUS
  <1>1. oops \in BOOLEAN /\ rng_device_registered \in BOOLEAN
    BY DEF Init
  <1>2. TypeOK
    BY <1>1 DEF Init, TypeOK
  <1>3. RegInv /\ KeptInv
    BY DEF Init, RegInv, KeptInv, Drivers
  <1>4. NodeInv /\ UseInv
    BY DEF Init, NodeInv, UseInv, Drivers
  <1> QED
    BY <1>2, <1>3, <1>4 DEF Inv

\* Every step keeps the types.
LEMMA TypeStep == TypeOK /\ Next => TypeOK'
  <1> SUFFICES ASSUME TypeOK, Next PROVE TypeOK'
    OBVIOUS
  <1> USE DEF TypeOK
  <1>1. ASSUME NEW d \in Drivers, Rmmod(d) PROVE TypeOK'
    BY <1>1 DEF Rmmod
  <1>2. ASSUME NEW m \in Majors, OtherDriver(m) PROVE TypeOK'
    BY <1>2 DEF OtherDriver
  <1>3. CASE DanglingUse
    <2>1. oops' \in BOOLEAN
      BY <1>3 DEF DanglingUse
    <2> QED
      BY <1>3, <2>1 DEF DanglingUse
  <1>4. ASSUME NEW d \in Drivers, NEW asked, NEW m \in Majors, Registers(d, asked, m)
        PROVE  /\ chrdev' \in [Majors -> Drivers \union {"none", "other"}]
               /\ reg_handle' \in [Drivers -> Majors \union {0}]
    BY <1>4 DEF Registers
  <1>5. ASSUME NEW d \in Drivers, remove_registration(d)
        PROVE  /\ chrdev' \in [Majors -> Drivers \union {"none", "other"}]
               /\ reg_handle' \in [Drivers -> Majors \union {0}]
    BY <1>5 DEF remove_registration
  <1>6. ASSUME NEW n \in Majors \union {0}, SccCleanup(n)
        PROVE  /\ chrdev' \in [Majors -> Drivers \union {"none", "other"}]
               /\ reg_handle' \in [Drivers -> Majors \union {0}]
               /\ major_node' \in Majors \union {0}
    BY <1>6 DEF SccCleanup, unregister_chrdev
  <1>7. SCC_MAJOR \in Majors \union {0}
    BY TestModulesAssumption DEF TestModulesAssumption
  <1>8. "scc" \in Drivers /\ "scc2" \in Drivers /\ "rng" \in Drivers /\ "spdc" \in Drivers
    BY DEF Drivers
  <1>9. CASE scc_test_init
    BY <1>4, <1>6, <1>7, <1>8, <1>9, FreedTypes DEF scc_test_init
  <1>10. CASE scc_test_cleanup
    BY <1>6, <1>8, <1>10, FreedTypes DEF scc_test_cleanup
  <1>11. CASE scc2_test_init
    BY <1>4, <1>5, <1>8, <1>11, FreedTypes DEF scc2_test_init
  <1>12. CASE scc2_test_cleanup
    BY <1>5, <1>8, <1>12, FreedTypes DEF scc2_test_cleanup
  <1>13. CASE rng_test_init
    <2>1. rng_device_registered' \in BOOLEAN
      BY <1>13 DEF rng_test_init
    <2> QED
      BY <1>4, <1>8, <1>13, <2>1 DEF rng_test_init
  <1>14. CASE rng_test_cleanup
    <2>1. rng_device_registered' \in BOOLEAN
      BY <1>14 DEF rng_test_cleanup
    <2>2. /\ chrdev' \in [Majors -> Drivers \union {"none", "other"}]
          /\ reg_handle' \in [Drivers -> Majors \union {0}]
      BY <1>5, <1>8, <1>14 DEF rng_test_cleanup
    <2> QED
      BY <1>8, <1>14, <2>1, <2>2, FreedTypes DEF rng_test_cleanup
  <1>15. CASE spdc_test_init_chrdev
    BY <1>4, <1>8, <1>15 DEF spdc_test_init_chrdev
  <1>16. CASE spdc_test_init_class
    BY <1>5, <1>8, <1>16, FreedTypes DEF spdc_test_init_class
  <1>17. CASE spdc_test_init_device
    BY <1>5, <1>8, <1>17, FreedTypes DEF spdc_test_init_device
  <1>18. CASE spdc_test_cleanup_module
    BY <1>5, <1>8, <1>18, FreedTypes DEF spdc_test_cleanup_module
  <1>19. ASSUME NEW p \in Procs, NEW d \in Drivers, NEW n \in Int,
                files' \in {files, [files EXCEPT ![d] = @ \union {p}], [files EXCEPT ![d] = @ \ {p}]},
                use' \in {use, [use EXCEPT ![d] = @ + n]},
                UNCHANGED <<mod, chrdev, reg_handle, node, major_node, rng_device_registered,
                            monitors, dangling, other, oops>>
         PROVE  TypeOK'
    <2>1. files' \in [Drivers -> SUBSET Procs]
      BY <1>19
    <2>2. use' \in [Drivers -> Int]
      BY <1>19
    <2> QED
      BY <1>19, <2>1, <2>2
  <1>20. ASSUME NEW p \in Procs, scc_test_open(p) \/ spdc_test_open(p) PROVE TypeOK'
    <2>1. \E d \in Drivers :
            /\ files' = [files EXCEPT ![d] = @ \union {p}]
            /\ use' \in {use, [use EXCEPT ![d] = @ + 1]}
            /\ UNCHANGED <<mod, chrdev, reg_handle, node, major_node, rng_device_registered,
                           monitors, dangling, other, oops>>
      BY <1>8, <1>20 DEF scc_test_open, spdc_test_open
    <2> QED
      BY <1>19, <2>1
  <1>21. ASSUME NEW p \in Procs, scc_test_release(p) \/ spdc_test_release(p) \/ scc_mmap_entry(p)
         PROVE  TypeOK'
    <2>1. \E d \in Drivers :
            /\ files' \in {files, [files EXCEPT ![d] = @ \ {p}]}
            /\ use' = [use EXCEPT ![d] = @ + (-1)]
            /\ UNCHANGED <<mod, chrdev, reg_handle, node, major_node, rng_device_registered,
                           monitors, dangling, other, oops>>
      BY <1>8, <1>21 DEF scc_test_release, spdc_test_release, scc_mmap_entry
    <2> QED
      BY <1>19, <2>1
  <1>22. ASSUME NEW p \in Procs, NEW d \in {"scc2", "rng"}, open_uncounted(d, p) \/ release_uncounted(d, p)
         PROVE  TypeOK'
    <2>1. files' \in {[files EXCEPT ![d] = @ \union {p}], [files EXCEPT ![d] = @ \ {p}]}
      BY <1>22 DEF open_uncounted, release_uncounted
    <2>2. UNCHANGED <<mod, chrdev, reg_handle, node, major_node, rng_device_registered,
                      monitors, use, dangling, other, oops>>
      BY <1>22 DEF open_uncounted, release_uncounted
    <2>3. files' \in [Drivers -> SUBSET Procs]
      BY <1>8, <2>1
    <2> QED
      BY <2>2, <2>3
  <1> QED
    BY <1>1, <1>2, <1>3, <1>9, <1>10, <1>11, <1>12, <1>13, <1>14, <1>15, <1>16, <1>17, <1>18,
       <1>20, <1>21, <1>22 DEF Next

\* Loading and unloading the drivers that share the SCC, and rng.
LEMMA OthersStep ==
    ASSUME SCC_MAJOR # 0, Inv,
           \/ scc_test_init \/ scc_test_cleanup \/ scc2_test_init \/ scc2_test_cleanup
           \/ rng_test_init \/ rng_test_cleanup
    PROVE  RegInv' /\ KeptInv' /\ NodeInv' /\ UseInv'
  <1>1. SCC_MAJOR \in Majors
    BY TestModulesAssumption DEF TestModulesAssumption
  <1>2. SpdcSame
    BY DEF scc_test_init, scc_test_cleanup, scc2_test_init, scc2_test_cleanup, rng_test_init,
           rng_test_cleanup, Freed, SpdcSame, Drivers, Inv, TypeOK
  <1>3. CASE scc_test_init
    <2>1. mod["scc"] = "out"
      BY <1>3 DEF scc_test_init
    <2>2. CASE \E m \in Majors :
                 /\ Registers("scc", SCC_MAJOR, m)
                 /\ major_node' = SCC_MAJOR
                 /\ mod' = [mod EXCEPT !["scc"] = "in"]
      <3>1. PICK m \in Majors :
                 /\ Registers("scc", SCC_MAJOR, m)
                 /\ major_node' = SCC_MAJOR
                 /\ mod' = [mod EXCEPT !["scc"] = "in"]
        BY <2>2
      <3>2. RegInv'
        BY <2>1, <3>1, RegistersKeeps DEF Drivers
      <3>3. m = SCC_MAJOR
        BY <3>1 DEF Registers
      <3>4. KeptInv'
        BY <1>3, <3>1, <3>3 DEF scc_test_init, Registers, KeptInv, Inv, TypeOK, Drivers
      <3> QED
        BY <1>2, <3>2, <3>4, SpdcKept
    <2>3. CASE SccCleanup(SCC_MAJOR) /\ Freed("scc", monitors \union {"scc"})
      <3>1. mod' = [mod EXCEPT !["scc"] = "out"]
        BY <2>3 DEF Freed
      <3>2. RegInv'
        BY <1>1, <2>1, <2>3, <3>1, SccCleanupKeeps
      <3>3. KeptInv'
        BY <1>3, <3>1 DEF scc_test_init, KeptInv, Inv, TypeOK, Drivers
      <3> QED
        BY <1>2, <3>2, <3>3, SpdcKept
    <2> QED
      BY <1>3, <2>2, <2>3 DEF scc_test_init
  <1>4. CASE scc_test_cleanup
    <2>1. mod' = [mod EXCEPT !["scc"] = "out"] /\ SccCleanup(major_node)
      BY <1>4 DEF scc_test_cleanup, Freed
    <2>2. major_node = reg_handle["scc"]
      BY <1>4 DEF scc_test_cleanup, Inv, KeptInv
    <2>3. RegInv'
      <3>1. CASE major_node \in Majors
        BY <2>1, <2>2, <3>1, SccCleanupKeeps
      <3>2. CASE major_node \notin Majors
        <4>1. major_node = 0 /\ UNCHANGED chrdev
          BY <2>1, <3>2 DEF Inv, TypeOK, SccCleanup
        <4> SUFFICES ASSUME NEW e \in Drivers, NEW k \in Majors, chrdev'[k] = e
                     PROVE  reg_handle'[e] = k /\ mod'[e] # "out"
          BY DEF RegInv
        <4>2. reg_handle[e] = k /\ mod[e] # "out" /\ e # "scc"
          BY <2>2, <3>2, <4>1 DEF Inv, RegInv
        <4> QED
          BY <2>1, <4>2 DEF Inv, TypeOK, SccCleanup
      <3> QED
        BY <3>1, <3>2
    <2>4. KeptInv'
      BY <1>4, <2>1 DEF scc_test_cleanup, KeptInv, Inv, TypeOK, Drivers
    <2> QED
      BY <1>2, <2>3, <2>4, SpdcKept
  <1>5. CASE scc2_test_init
    <2>1. mod["scc2"] = "out"
      BY <1>5 DEF scc2_test_init
    <2>2. CASE \E m \in Majors :
                 Registers("scc2", 0, m) /\ mod' = [mod EXCEPT !["scc2"] = "in"]
      <3>1. PICK m \in Majors :
                 Registers("scc2", 0, m) /\ mod' = [mod EXCEPT !["scc2"] = "in"]
        BY <2>2
      <3>2. RegInv'
        BY <2>1, <3>1, RegistersKeeps DEF Drivers
      <3>3. KeptInv'
        BY <1>5, <3>1 DEF scc2_test_init, Registers, KeptInv, Inv, TypeOK, Drivers
      <3> QED
        BY <1>2, <3>2, <3>3, SpdcKept
    <2>3. CASE remove_registration("scc2") /\ Freed("scc2", monitors \union {"scc2"})
      <3>1. mod' = [mod EXCEPT !["scc2"] = "out"]
        BY <2>3 DEF Freed
      <3>2. RegInv'
        BY <2>3, <3>1, RemoveKeeps DEF Drivers
      <3>3. KeptInv'
        BY <1>5, <2>3, <3>1 DEF scc2_test_init, remove_registration, KeptInv, Inv, TypeOK, Drivers
      <3> QED
        BY <1>2, <3>2, <3>3, SpdcKept
    <2> QED
      BY <1>5, <2>2, <2>3 DEF scc2_test_init
  <1>6. CASE scc2_test_cleanup
    <2>1. mod' = [mod EXCEPT !["scc2"] = "out"] /\ remove_registration("scc2")
      BY <1>6 DEF scc2_test_cleanup, Freed
    <2>2. RegInv'
      BY <2>1, RemoveKeeps DEF Drivers
    <2>3. KeptInv'
      BY <1>6, <2>1 DEF scc2_test_cleanup, remove_registration, KeptInv, Inv, TypeOK, Drivers
    <2> QED
      BY <1>2, <2>2, <2>3, SpdcKept
  <1>7. CASE rng_test_init
    <2>1. PICK m \in Majors : Registers("rng", 0, m)
      BY <1>7 DEF rng_test_init
    <2>2. mod["rng"] = "out" /\ mod' = [mod EXCEPT !["rng"] = "in"]
      BY <1>7 DEF rng_test_init
    <2>3. RegInv'
      BY <2>1, <2>2, RegistersKeeps DEF Drivers
    <2>4. KeptInv'
      BY <1>7, <2>1 DEF rng_test_init, Registers, KeptInv, Inv, TypeOK, Drivers
    <2> QED
      BY <1>2, <2>3, <2>4, SpdcKept
  <1>8. CASE rng_test_cleanup
    <2>1. mod' = [mod EXCEPT !["rng"] = "out"] /\ remove_registration("rng")
      BY <1>8 DEF rng_test_cleanup, Freed, Inv, KeptInv
    <2>2. RegInv'
      BY <2>1, RemoveKeeps DEF Drivers
    <2>3. KeptInv'
      BY <1>8, <2>1 DEF rng_test_cleanup, remove_registration, KeptInv, Inv, TypeOK, Drivers
    <2> QED
      BY <1>2, <2>2, <2>3, SpdcKept
  <1> QED
    BY <1>3, <1>4, <1>5, <1>6, <1>7, <1>8

\* Loading and unloading spdc.
LEMMA SpdcStep ==
    ASSUME Inv,
           \/ spdc_test_init_chrdev \/ spdc_test_init_class \/ spdc_test_init_device
           \/ spdc_test_cleanup_module
    PROVE  RegInv' /\ KeptInv' /\ NodeInv' /\ UseInv'
  <1> USE DEF Drivers
  <1>1. ASSUME remove_registration("spdc"), Freed("spdc", monitors), node' = {},
               UNCHANGED <<major_node, rng_device_registered>>
        PROVE  RegInv' /\ KeptInv' /\ NodeInv' /\ UseInv'
    <2>1. mod' = [mod EXCEPT !["spdc"] = "out"]
      BY <1>1 DEF Freed
    <2>2. RegInv'
      BY <1>1, <2>1, RemoveKeeps
    <2>3. KeptInv'
      BY <1>1, <2>1 DEF remove_registration, KeptInv, Inv, TypeOK
    <2>4. NodeInv' /\ UseInv'
      BY <1>1, <2>1 DEF Freed, NodeInv, UseInv, Inv, TypeOK
    <2> QED
      BY <2>2, <2>3, <2>4
  <1>2. ASSUME UNCHANGED <<chrdev, reg_handle, major_node, rng_device_registered, use, files>>,
               mod["spdc"] \notin {"out", "in", "going"},
               NEW s \in {"device", "in"}, mod' = [mod EXCEPT !["spdc"] = s],
               node' = IF s = "device" THEN {"class"} ELSE {"class", "device"}
        PROVE  RegInv' /\ KeptInv' /\ NodeInv' /\ UseInv'
    <2>1. RegInv'
      BY <1>2, RegSame DEF Inv, TypeOK
    <2>2. KeptInv'
      BY <1>2 DEF KeptInv, Inv, TypeOK
    <2>3. NodeInv'
      BY <1>2 DEF NodeInv, Inv, TypeOK
    <2>4. files["spdc"] = {} /\ use["spdc"] = 0
      BY <1>2 DEF UseInv, Inv
    <2>5. UseInv'
      BY <1>2, <2>4, FS_EmptySet DEF UseInv, Inv, TypeOK
    <2> QED
      BY <2>1, <2>2, <2>3, <2>5
  <1>3. CASE spdc_test_init_chrdev
    <2>1. PICK m \in Majors : Registers("spdc", 0, m)
      BY <1>3 DEF spdc_test_init_chrdev
    <2>2. mod["spdc"] = "out" /\ mod' = [mod EXCEPT !["spdc"] = "class"]
      BY <1>3 DEF spdc_test_init_chrdev
    <2>3. RegInv'
      BY <2>1, <2>2, RegistersKeeps
    <2>4. KeptInv'
      BY <1>3, <2>1, <2>2 DEF spdc_test_init_chrdev, Registers, KeptInv, Inv, TypeOK
    <2>5. NodeInv' /\ UseInv'
      BY <1>3, <2>2 DEF spdc_test_init_chrdev, NodeInv, UseInv, Inv, TypeOK
    <2> QED
      BY <2>3, <2>4, <2>5
  <1>4. CASE spdc_test_init_class
    <2>1. node = {}
      BY <1>4 DEF spdc_test_init_class, Inv, NodeInv
    <2> QED
      BY <1>1, <1>2, <1>4, <2>1 DEF spdc_test_init_class
  <1>5. CASE spdc_test_init_device
    <2>1. node = {"class"}
      BY <1>5 DEF spdc_test_init_device, Inv, NodeInv
    <2>2. node \union {"device"} = {"class", "device"} /\ node \ {"class"} = {}
      BY <2>1
    <2> QED
      BY <1>1, <1>2, <1>5, <2>2 DEF spdc_test_init_device
  <1>6. CASE spdc_test_cleanup_module
    <2>1. node' = {}
      BY <1>6 DEF spdc_test_cleanup_module, Inv, NodeInv
    <2> QED
      BY <1>1, <1>6, <2>1 DEF spdc_test_cleanup_module
  <1> QED
    BY <1>3, <1>4, <1>5, <1>6

\* rmmod's first step, the processes' calls and the rest of the system.
LEMMA UserStep ==
    ASSUME Inv, NEW p,
           \/ \E d \in Drivers : Rmmod(d)
           \/ \E m \in Majors : OtherDriver(m)
           \/ DanglingUse
           \/ scc_test_open(p) \/ scc_test_release(p) \/ scc_mmap_entry(p)
           \/ spdc_test_open(p) \/ spdc_test_release(p)
           \/ \E d \in {"scc2", "rng"} : open_uncounted(d, p) \/ release_uncounted(d, p)
    PROVE  RegInv' /\ KeptInv' /\ NodeInv' /\ UseInv'
  <1> USE DEF Drivers
  <1>1. ASSUME UNCHANGED <<mod, chrdev, reg_handle, node, major_node, rng_device_registered>>
        PROVE  RegInv' /\ KeptInv' /\ NodeInv'
    BY <1>1 DEF Inv, RegInv, KeptInv, NodeInv
  <1>2. ASSUME NEW d \in Drivers, Rmmod(d) PROVE RegInv' /\ KeptInv' /\ NodeInv' /\ UseInv'
    <2>1. RegInv'
      BY <1>2, RegSame DEF Rmmod, Inv, TypeOK
    <2>2. KeptInv'
      BY <1>2 DEF Rmmod, KeptInv, Inv, TypeOK
    <2>3. NodeInv' /\ UseInv'
      BY <1>2 DEF Rmmod, NodeInv, UseInv, Inv, TypeOK
    <2> QED
      BY <2>1, <2>2, <2>3
  <1>3. ASSUME NEW m \in Majors, OtherDriver(m) PROVE RegInv' /\ KeptInv' /\ NodeInv' /\ UseInv'
    <2>1. RegInv'
      BY <1>3 DEF OtherDriver, RegInv, Inv, TypeOK
    <2>2. KeptInv' /\ NodeInv' /\ UseInv'
      BY <1>3 DEF OtherDriver, KeptInv, NodeInv, UseInv, Inv
    <2> QED
      BY <2>1, <2>2
  <1>4. CASE DanglingUse
    BY <1>1, <1>4 DEF DanglingUse, UseInv, Inv
  <1>5. CASE scc_test_open(p) \/ scc_test_release(p) \/ scc_mmap_entry(p)
    <2>1. use'["spdc"] = use["spdc"] /\ files'["spdc"] = files["spdc"] /\ mod' = mod
      BY <1>5 DEF scc_test_open, scc_test_release, scc_mmap_entry, Inv, TypeOK
    <2>2. UseInv'
      BY <2>1 DEF UseInv, Inv
    <2> QED
      BY <1>1, <1>5, <2>2 DEF scc_test_open, scc_test_release, scc_mmap_entry
  <1>6. ASSUME NEW d \in {"scc2", "rng"}, open_uncounted(d, p) \/ release_uncounted(d, p)
        PROVE  RegInv' /\ KeptInv' /\ NodeInv' /\ UseInv'
    <2>1. use'["spdc"] = use["spdc"] /\ files'["spdc"] = files["spdc"] /\ mod' = mod
      BY <1>6 DEF open_uncounted, release_uncounted, Inv, TypeOK
    <2>2. UseInv'
      BY <2>1 DEF UseInv, Inv
    <2> QED
      BY <1>1, <1>6, <2>2 DEF open_uncounted, release_uncounted
  <1>7. IsFiniteSet(files["spdc"]) /\ Cardinality(files["spdc"]) \in Nat
    BY FilesFinite DEF Inv
  <1>8. CASE spdc_test_open(p)
    <2>1. mod["spdc"] \in {"in", "going"}
      BY <1>8 DEF spdc_test_open, Inv, NodeInv, TypeOK
    <2>2. files'["spdc"] = files["spdc"] \union {p} /\ p \notin files["spdc"]
      BY <1>8 DEF spdc_test_open, Inv, TypeOK
    <2>3. Cardinality(files'["spdc"]) = Cardinality(files["spdc"]) + 1
      BY <1>7, <2>2, FS_AddElement
    <2>4. UseInv'
      BY <1>8, <2>1, <2>3 DEF spdc_test_open, UseInv, Inv, TypeOK
    <2> QED
      BY <1>1, <1>8, <2>4 DEF spdc_test_open
  <1>9. CASE spdc_test_release(p)
    <2>1. mod["spdc"] \in {"in", "going"}
      BY <1>9 DEF spdc_test_release, Inv, UseInv
    <2>2. files'["spdc"] = files["spdc"] \ {p} /\ p \in files["spdc"]
      BY <1>9 DEF spdc_test_release, Inv, TypeOK
    <2>3. Cardinality(files'["spdc"]) = Cardinality(files["spdc"]) - 1
      BY <1>7, <2>2, FS_RemoveElement
    <2>4. UseInv'
      BY <1>9, <2>1, <2>3 DEF spdc_test_release, UseInv, Inv, TypeOK
    <2> QED
      BY <1>1, <1>9, <2>4 DEF spdc_test_release
  <1> QED
    BY <1>2, <1>3, <1>4, <1>5, <1>6, <1>8, <1>9

-----------------------------------------------------------------------------
\* Every step keeps the invariant.
LEMMA NextInv == SCC_MAJOR # 0 /\ Inv /\ [Next]_vars => Inv'
  <1> SUFFICES ASSUME SCC_MAJOR # 0, Inv, [Next]_vars PROVE Inv'
    OBVIOUS
  <1>1. CASE UNCHANGED vars
    BY <1>1 DEF vars, Inv, TypeOK, RegInv, KeptInv, NodeInv, UseInv
  <1>2. CASE Next
    <2>1. TypeOK'
      BY <1>2, TypeStep DEF Inv
    <2>2. RegInv' /\ KeptInv' /\ NodeInv' /\ UseInv'
      <3>1. CASE \/ scc_test_init \/ scc_test_cleanup \/ scc2_test_init \/ scc2_test_cleanup
                 \/ rng_test_init \/ rng_test_cleanup
        BY <3>1, OthersStep
      <3>2. CASE \/ spdc_test_init_chrdev \/ spdc_test_init_class \/ spdc_test_init_device
                 \/ spdc_test_cleanup_module
        BY <3>2, SpdcStep
      <3>3. CASE DanglingUse \/ (\E d \in Drivers : Rmmod(d)) \/ (\E m \in Majors : OtherDriver(m))
        BY <3>3, UserStep
      <3>4. ASSUME NEW p \in Procs,
                   \/ scc_test_open(p) \/ scc_test_release(p) \/ scc_mmap_entry(p)
                   \/ spdc_test_open(p) \/ spdc_test_release(p)
                   \/ \E d \in {"scc2", "rng"} : open_uncounted(d, p) \/ release_uncounted(d, p)
            PROVE  RegInv' /\ KeptInv' /\ NodeInv' /\ UseInv'
        BY <3>4, UserStep
      <3> QED
        BY <1>2, <3>1, <3>2, <3>3, <3>4 DEF Next
    <2> QED
      BY <2>1, <2>2 DEF Inv
  <1> QED
    BY <1>1, <1>2

\* The inductive invariant, when the SCC driver asks for a major number.
THEOREM ModulesInvariant == SCC_MAJOR # 0 => (Spec => []Inv)
  <1> SUFFICES ASSUME SCC_MAJOR # 0 PROVE Spec => []Inv
    OBVIOUS
  <1>1. Init => Inv
    BY InitInv
  <1>2. Inv /\ [Next]_vars => Inv'
    BY NextInv
  <1> QED
    BY <1>1, <1>2, PTL DEF Spec

\* No device number, class or device outlives its module, after a failed insmod
\* as after rmmod, unless the SCC driver was given no major number.
THEOREM NodesSafe == SCC_MAJOR # 0 => (Spec => []NodeRemoved)
  <1> SUFFICES ASSUME SCC_MAJOR # 0 PROVE Spec => []NodeRemoved
    OBVIOUS
  <1>1. Inv => NodeRemoved
    BY DEF Inv, RegInv, NodeInv, NodeRemoved
  <1>2. Spec => []Inv
    BY ModulesInvariant
  <1> QED
    BY <1>1, <1>2, PTL

\* rmmod of spdc_test is accepted only at a moment when no process has its device
\* open.  A file opened afterwards, while the module is going, is not counted
\* (spdc_test_driver.c:49 ignores what try_module_get says) and not covered.
THEOREM UnloadIsSafe == SCC_MAJOR # 0 => (Spec => UnloadSafe)
  <1> SUFFICES ASSUME SCC_MAJOR # 0 PROVE Spec => UnloadSafe
    OBVIOUS
  <1> DEFINE Empty == mod["spdc"] = "in" /\ mod'["spdc"] = "going" => files["spdc"] = {}
  <1>1. ASSUME Inv, [Next]_vars PROVE [Empty]_vars
    <2> SUFFICES ASSUME Next, mod["spdc"] = "in", mod'["spdc"] = "going" PROVE files["spdc"] = {}
      BY <1>1
    <2>1. Rmmod("spdc")
      BY <1>1 DEF Next, Drivers, Inv, TypeOK, Rmmod, OtherDriver, DanglingUse, scc_test_init, scc_test_cleanup,
         scc2_test_init, scc2_test_cleanup, rng_test_init, rng_test_cleanup, spdc_test_init_chrdev,
         spdc_test_init_class, spdc_test_init_device, spdc_test_cleanup_module, scc_test_open,
         scc_test_release, scc_mmap_entry, spdc_test_open, spdc_test_release, open_uncounted,
         release_uncounted, Freed
    <2>2. Cardinality(files["spdc"]) = 0 /\ IsFiniteSet(files["spdc"])
      BY <1>1, <2>1, FilesFinite DEF Rmmod, Inv, UseInv, Drivers
    <2> QED
      BY <2>2, FS_EmptySet
  <1>2. Spec => []Inv
    BY ModulesInvariant
  <1> QED
    BY <1>1, <1>2, PTL DEF Spec, UnloadSafe

-----------------------------------------------------------------------------
(* The files and ioctls of the RNG driver. *)

Live(f) == file[f] # "closed"

\* The users of the SHW layer, one live file at a time.
UsersInv ==
    /\ \A c \in users : \E f \in Files : Live(f) /\ private[f] = c
    /\ \A f \in Files : Live(f) => private[f] \in users
    /\ users \subseteq heap
    /\ \A f, g \in Files : Live(f) /\ Live(g) /\ private[f] = private[g] => f = g

\* A thread works on the context of its file, which is live.
CallInv ==
    \A p \in Threads :
      call[p] # Idle =>
        /\ call[p].file \in Files
        /\ Live(call[p].file)
        /\ call[p].ctx = private[call[p].file]

\* A handler has a buffer only between its allocation and the answer.
BufInv == \A p \in Threads : call[p].at \in {"begin", "return"} => ~call[p].buf

RngInv == RngTypeOK /\ UsersInv /\ CallInv /\ BufInv

\* The records of handlers in progress.
Busy == [at: {"begin", "shw", "finish", "return"}, cmd: Commands, file: Files,
         ctx: Ctxs \union {NoCtx}, buf: BOOLEAN, fed: {"none", "caller", "heap"},
         rng: {"none", "ok", "err"}, user: {"none", "ok", "err"}, code: Codes]

\* The handler keeps its file and context, and does not return with a buffer.
Follows(c, d) ==
    /\ d \in Busy
    /\ d.file = c.file /\ d.ctx = c.ctx
    /\ d.at # "begin"
    /\ d.at = "return" => ~d.buf

-----------------------------------------------------------------------------
\* A thread that is not in the application is in a handler, and has its record.
LEMMA BusyOrIdle ==
    ASSUME NEW c \in Call
    PROVE  /\ c # Idle => c \in Busy
           /\ c.at \in {"begin", "shw", "finish", "return"} => c \in Busy
           /\ Idle.at = "user"
           /\ c \in Busy => c # Idle
  BY DEF Call, Busy, Idle

\* A handler that gives its structure back.
LEMMA CopyFollows ==
    ASSUME NEW c \in Busy, NEW b \in Busy, b.file = c.file, b.ctx = c.ctx, ~b.buf,
           NEW d \in CopiesOut(b)
    PROVE  Follows(c, d)
  <1>1. CASE d = Returns([b EXCEPT !.user = b.rng], "OK")
    BY <1>1 DEF Follows, Returns, Busy, Codes
  <1>2. CASE d = Returns(b, "BAD_ADDRESS")
    BY <1>2 DEF Follows, Returns, Busy, Codes
  <1> QED
    BY <1>1, <1>2 DEF CopiesOut

\* The steps of the switch.
LEMMA DispatchFollows ==
    ASSUME NEW c \in Busy, ~c.buf, NEW d \in Dispatch(c)
    PROVE  Follows(c, d)
  <1>1. ASSUME NEW code \in Codes PROVE Follows(c, Returns(c, code))
    BY DEF Follows, Returns, Busy
  <1>2. ASSUME NEW e \in RegisterReply(c) PROVE Follows(c, e)
    <2>1. ASSUME NEW a \in {"ok", "err"}
          PROVE  /\ [c EXCEPT !.rng = a] \in Busy
                 /\ [c EXCEPT !.rng = a].file = c.file
                 /\ [c EXCEPT !.rng = a].ctx = c.ctx
                 /\ [c EXCEPT !.rng = a].buf = c.buf
      BY DEF Busy
    <2>2. ASSUME NEW a \in {"ok", "err"}, e \in CopiesOut([c EXCEPT !.rng = a])
          PROVE  Follows(c, e)
      BY <2>1, <2>2, CopyFollows
    <2> QED
      BY <1>1, <1>2, <2>2 DEF RegisterReply, Codes
  <1>3. ASSUME NEW e \in rng_test_get_random(c) PROVE Follows(c, e)
    <2>1. CASE e = Returns(c, "BAD_ADDRESS")
      BY <1>1, <2>1 DEF Codes
    <2>2. ASSUME NEW b \in BOOLEAN, e = [c EXCEPT !.at = "shw", !.buf = b]
          PROVE  Follows(c, e)
      <3>1. e \in Busy /\ e.file = c.file /\ e.ctx = c.ctx /\ e.at = "shw"
        BY <2>2 DEF Busy
      <3> QED
        BY <3>1 DEF Follows
    <2> QED
      BY <2>1, <2>2 DEF rng_test_get_random
  <1>4. ASSUME NEW e \in rng_test_add_entropy(c) PROVE Follows(c, e)
    BY DEF rng_test_add_entropy, Follows, Returns, Busy, Codes
  <1> QED
    BY <1>1, <1>2, <1>3, <1>4
       DEF Dispatch, rng_test_read_register, rng_test_write_register, Codes

\* The ends of the two handlers that sleep.
LEMMA EndFollows ==
    ASSUME NEW c \in Busy, NEW d, d \in GetRandomEnds(c) \/ d \in AddEntropyEnds(c)
    PROVE  Follows(c, d)
  <1> DEFINE b == [c EXCEPT !.buf = FALSE]
  <1>1. b \in Busy /\ b.file = c.file /\ b.ctx = c.ctx /\ b.buf = FALSE /\ b.rng = c.rng
    BY DEF Busy
  <1> HIDE DEF b
  <1>2. ASSUME d \in CopiesOut(b) PROVE Follows(c, d)
    BY <1>1, <1>2, CopyFollows
  <1>3. ASSUME NEW u \in {"none", "ok"}, NEW code \in {"OK", "BAD_ADDRESS"},
               d = Returns([b EXCEPT !.user = u], code)
        PROVE  Follows(c, d)
    BY <1>1, <1>3 DEF Follows, Returns, Busy, Codes
  <1>4. CASE d \in AddEntropyEnds(c)
    BY <1>2, <1>4 DEF AddEntropyEnds, b
  <1>5. CASE d \in GetRandomEnds(c)
    <2>1. CASE c.rng = "ok"
      <3>1. PICK u \in {"none", "ok"}, code \in {"OK", "BAD_ADDRESS"} :
              d = Returns([b EXCEPT !.user = u], code)
        BY <1>5, <2>1 DEF GetRandomEnds, b
      <3> QED
        BY <1>3, <3>1
    <2>2. CASE c.rng # "ok"
      BY <1>2, <1>5, <2>2 DEF GetRandomEnds, b
    <2> QED
      BY <2>1, <2>2
  <1> QED
    BY <1>4, <1>5

-----------------------------------------------------------------------------
\* RngInit establishes the invariant.
LEMMA RngStart == RngInit => RngInv
  <1> SUFFICES ASSUME RngInit PROVE RngInv
    OBVIOUS
  <1>1. Idle \in Call
    BY DEF Call
  <1>2. RngTypeOK
    BY <1>1 DEF RngInit, RngTypeOK
  <1>3. UsersInv
    BY DEF RngInit, UsersInv, Live
  <1>4. CallInv /\ BufInv
    BY DEF RngInit, CallInv, BufInv, Idle
  <1> QED
    BY <1>2, <1>3, <1>4 DEF RngInv

\* A handler's step keeps the invariant when it follows from where it was.
LEMMA HandlerStep ==
    ASSUME RngInv, NEW p \in Threads, NEW c, call[p] \in Busy, Follows(call[p], c),
           call' = [call EXCEPT ![p] = c], UNCHANGED <<heap, users, file, private>>
    PROVE  RngInv'
  <1>1. c \in Call
    BY DEF Follows, Call, Busy
  <1>2. RngTypeOK'
    BY <1>1 DEF RngInv, RngTypeOK
  <1>3. UsersInv'
    BY DEF RngInv, UsersInv, Live
  <1>4. call[p] # Idle /\ c # Idle
    BY BusyOrIdle, <1>1 DEF RngInv, RngTypeOK, Follows
  <1>5. CallInv'
    BY <1>4 DEF RngInv, CallInv, Live, RngTypeOK, Follows
  <1>6. BufInv'
    BY DEF RngInv, BufInv, RngTypeOK, Follows
  <1> QED
    BY <1>2, <1>3, <1>5, <1>6 DEF RngInv

\* The steps of a thread.
LEMMA ThreadStep ==
    ASSUME RngInv, NEW p \in Threads,
           rng_test_ioctl(p) \/ Begin(p) \/ ShwAnswer(p) \/ Finish(p) \/ Return(p)
    PROVE  RngInv'
  <1> USE DEF RngInv
  <1>0. call[p] \in Call
    BY DEF RngTypeOK
  <1>1. CASE rng_test_ioctl(p)
    <2>1. PICK f \in Files, cmd \in Commands :
         /\ file[f] = "open"
         /\ call' = [call EXCEPT ![p] =
              [at |-> "begin", cmd |-> cmd, file |-> f, ctx |-> private[f], buf |-> FALSE,
               fed |-> "none", rng |-> "none", user |-> "none", code |-> "OK"]]
      BY <1>1 DEF rng_test_ioctl
    <2> DEFINE c == [at |-> "begin", cmd |-> cmd, file |-> f, ctx |-> private[f], buf |-> FALSE,
                     fed |-> "none", rng |-> "none", user |-> "none", code |-> "OK"]
    <2>2. c \in Busy
      BY DEF Busy, Codes, RngTypeOK
    <2>3. c \in Call
      BY <2>2 DEF Busy, Call
    <2>4. /\ c.file = f /\ c.ctx = private[f] /\ c.at = "begin"
          /\ c.buf = FALSE
      OBVIOUS
    <2> HIDE DEF c
    <2>5. UNCHANGED <<heap, users, file, private>> /\ call' = [call EXCEPT ![p] = c]
      BY <1>1, <2>1 DEF rng_test_ioctl, c
    <2>6. RngTypeOK'
      BY <2>3, <2>5 DEF RngTypeOK
    <2>7. UsersInv'
      BY <2>5 DEF UsersInv, Live
    <2>8. CallInv'
      BY <2>1, <2>4, <2>5 DEF CallInv, Live, RngTypeOK
    <2>9. BufInv'
      BY <2>4, <2>5 DEF BufInv, RngTypeOK
    <2> QED
      BY <2>6, <2>7, <2>8, <2>9
  <1>2. CASE Begin(p)
    <2>1. call[p] \in Busy /\ ~call[p].buf
      BY <1>0, <1>2, BusyOrIdle DEF Begin, BufInv
    <2> QED
      BY <1>2, <2>1, DispatchFollows, HandlerStep DEF Begin
  <1>3. CASE ShwAnswer(p)
    <2>1. call[p] \in Busy
      BY <1>0, <1>3, BusyOrIdle DEF ShwAnswer
    <2>2. PICK a \in {"ok", "err"} : call' = [call EXCEPT ![p].at = "finish", ![p].rng = a]
      BY <1>3 DEF ShwAnswer, ShwAnswers
    <2>3. Follows(call[p], [call[p] EXCEPT !.at = "finish", !.rng = a])
      BY <2>1 DEF Follows, Busy
    <2>4. call' = [call EXCEPT ![p] = [call[p] EXCEPT !.at = "finish", !.rng = a]]
      BY <2>2 DEF RngTypeOK
    <2> QED
      BY <1>3, <2>1, <2>3, <2>4, HandlerStep DEF ShwAnswer
  <1>4. CASE Finish(p)
    <2>1. call[p] \in Busy
      BY <1>0, <1>4, BusyOrIdle DEF Finish
    <2> QED
      BY <1>4, <2>1, EndFollows, HandlerStep DEF Finish
  <1>5. CASE Return(p)
    <2>1. UNCHANGED <<heap, users, file, private>> /\ call' = [call EXCEPT ![p] = Idle]
      BY <1>5 DEF Return
    <2>2. Idle \in Call /\ Idle.at = "user"
      BY DEF Call, Idle
    <2>3. RngTypeOK'
      BY <2>1, <2>2 DEF RngTypeOK
    <2>4. UsersInv'
      BY <2>1 DEF UsersInv, Live
    <2>5. CallInv'
      BY <2>1 DEF CallInv, Live, RngTypeOK
    <2>6. BufInv'
      BY <2>1, <2>2 DEF BufInv, RngTypeOK
    <2> QED
      BY <2>3, <2>4, <2>5, <2>6
  <1> QED
    BY <1>1, <1>2, <1>3, <1>4, <1>5

\* The steps of a file.
LEMMA FileStep ==
    ASSUME RngInv, NEW f \in Files, rng_test_open(f) \/ Close(f) \/ rng_test_release(f)
    PROVE  RngInv'
  <1> USE DEF RngInv
  <1>1. call' = call
    BY DEF rng_test_open, Close, rng_test_release
  <1>2. BufInv'
    BY <1>1 DEF BufInv
  <1>3. CASE rng_test_open(f)
    <2>1. PICK c \in Ctxs \ heap :
         /\ heap' = heap \union {c}
         /\ \/ /\ users' = users \union {c}
               /\ private' = [private EXCEPT ![f] = c]
               /\ file' = [file EXCEPT ![f] = "open"]
            \/ UNCHANGED <<users, private, file>>
      BY <1>3 DEF rng_test_open
    <2>2. file[f] = "closed"
      BY <1>3 DEF rng_test_open
    <2>3. RngTypeOK'
      BY <1>1, <2>1 DEF RngTypeOK
    <2>4. CASE UNCHANGED <<users, private, file>>
      <3>1. UsersInv'
        BY <2>1, <2>4 DEF UsersInv, Live
      <3>2. CallInv'
        BY <1>1, <2>4 DEF CallInv, Live
      <3> QED
        BY <1>2, <2>3, <3>1, <3>2
    <2>5. CASE /\ users' = users \union {c}
               /\ private' = [private EXCEPT ![f] = c]
               /\ file' = [file EXCEPT ![f] = "open"]
      <3>1. /\ \A g \in Files : g # f => private'[g] = private[g] /\ (Live(g)' <=> Live(g))
            /\ private'[f] = c /\ Live(f)' /\ ~Live(f)
        BY <2>2, <2>5 DEF RngTypeOK, Live
      <3>2. \A g \in Files : Live(g) => private[g] # c
        BY <2>1 DEF UsersInv
      <3>3. UsersInv'
        <4>1. \A e \in users' : \E g \in Files : Live(g)' /\ private'[g] = e
          <5> SUFFICES ASSUME NEW e \in users' PROVE \E g \in Files : Live(g)' /\ private'[g] = e
            OBVIOUS
          <5>1. CASE e = c
            BY <3>1, <5>1
          <5>2. CASE e \in users
            <6>1. PICK g \in Files : Live(g) /\ private[g] = e
              BY <5>2 DEF UsersInv
            <6> QED
              BY <3>1, <6>1
          <5> QED
            BY <2>5, <5>1, <5>2
        <4>2. \A g \in Files : Live(g)' => private'[g] \in users'
          BY <2>5, <3>1 DEF UsersInv
        <4>3. users' \subseteq heap'
          BY <2>1, <2>5 DEF UsersInv
        <4>4. \A g, h \in Files : Live(g)' /\ Live(h)' /\ private'[g] = private'[h] => g = h
          BY <3>1, <3>2 DEF UsersInv
        <4> QED
          BY <4>1, <4>2, <4>3, <4>4 DEF UsersInv, Live
      <3>4. CallInv'
        BY <1>1, <3>1 DEF CallInv, Live
      <3> QED
        BY <1>2, <2>3, <3>3, <3>4
    <2> QED
      BY <2>1, <2>4, <2>5
  <1>4. CASE Close(f)
    <2>1. \A g \in Files : Live(g)' <=> Live(g)
      BY <1>4 DEF Close, Live, RngTypeOK
    <2>2. UNCHANGED <<heap, users, private>>
      BY <1>4 DEF Close
    <2>3. RngTypeOK'
      BY <1>1, <1>4 DEF Close, RngTypeOK
    <2>4. UsersInv'
      BY <2>1, <2>2 DEF UsersInv, Live
    <2>5. CallInv'
      BY <1>1, <2>1, <2>2 DEF CallInv, Live
    <2> QED
      BY <1>2, <2>3, <2>4, <2>5
  <1>5. CASE rng_test_release(f)
    <2>1. /\ users' = users \ {private[f]}
          /\ heap' = heap \ {private[f]}
          /\ private' = [private EXCEPT ![f] = NoCtx]
          /\ file' = [file EXCEPT ![f] = "closed"]
          /\ Live(f)
      BY <1>5 DEF rng_test_release, Live
    <2>2. /\ \A g \in Files : g # f => private'[g] = private[g] /\ (Live(g)' <=> Live(g))
          /\ ~Live(f)'
      BY <2>1 DEF RngTypeOK, Live
    <2>3. \A g \in Files : Live(g) /\ g # f => private[g] # private[f]
      BY <2>1 DEF UsersInv
    <2>4. RngTypeOK'
      BY <1>1, <2>1 DEF RngTypeOK
    <2>5. UsersInv'
      <3>1. \A e \in users' : \E g \in Files : Live(g)' /\ private'[g] = e
        <4> SUFFICES ASSUME NEW e \in users' PROVE \E g \in Files : Live(g)' /\ private'[g] = e
          OBVIOUS
        <4>1. e \in users /\ e # private[f]
          BY <2>1
        <4>2. PICK g \in Files : Live(g) /\ private[g] = e
          BY <4>1 DEF UsersInv
        <4> QED
          BY <2>2, <4>1, <4>2
      <3>2. \A g \in Files : Live(g)' => private'[g] \in users'
        BY <2>1, <2>2, <2>3 DEF UsersInv
      <3>3. users' \subseteq heap'
        BY <2>1 DEF UsersInv
      <3>4. \A g, h \in Files : Live(g)' /\ Live(h)' /\ private'[g] = private'[h] => g = h
        BY <2>2 DEF UsersInv
      <3> QED
        BY <3>1, <3>2, <3>3, <3>4 DEF UsersInv, Live
    <2>6. \A p \in Threads : call[p] # Idle => call[p].file # f
      BY <1>5 DEF rng_test_release, InUse
    <2>7. CallInv'
      BY <1>1, <2>2, <2>6 DEF CallInv, Live
    <2> QED
      BY <1>2, <2>4, <2>5, <2>7
  <1> QED
    BY <1>3, <1>4, <1>5

-----------------------------------------------------------------------------
\* Every step of rng_test_driver.c keeps the invariant.
LEMMA RngStep == RngInv /\ [RngNext]_rngVars => RngInv'
  <1> SUFFICES ASSUME RngInv, [RngNext]_rngVars PROVE RngInv'
    OBVIOUS
  <1>1. CASE UNCHANGED rngVars
    BY <1>1 DEF rngVars, RngInv, RngTypeOK, UsersInv, CallInv, BufInv, Live
  <1>2. CASE RngNext
    BY <1>2, FileStep, ThreadStep DEF RngNext
  <1> QED
    BY <1>1, <1>2

\* The inductive invariant of rng_test_driver.c.
THEOREM RngInvariant == RngSpec => []RngInv
  BY RngStart, RngStep, PTL DEF RngSpec

\* The users of the SHW layer are the contexts of the files that are not closed,
\* one each, and every ioctl works on its file's context, also after close().
THEOREM ContextsSafe == RngSpec => []ContextsExact
  <1>1. RngInv => ContextsExact
    <2> SUFFICES ASSUME RngInv PROVE ContextsExact
      OBVIOUS
    <2> DEFINE live == {f \in Files : file[f] # "closed"}
    <2>1. users = {private[f] : f \in live}
      <3>1. ASSUME NEW c \in users PROVE \E f \in live : c = private[f]
        BY <3>1 DEF RngInv, UsersInv, Live
      <3>2. ASSUME NEW f \in live PROVE private[f] \in users
        BY DEF RngInv, UsersInv, Live
      <3> QED
        BY <3>1, <3>2
    <2>2. users \subseteq heap
      BY DEF RngInv, UsersInv
    <2>3. \A f, g \in live : private[f] = private[g] => f = g
      BY DEF RngInv, UsersInv, Live
    <2>4. \A p \in Threads :
             call[p] # Idle => call[p].file \in live /\ call[p].ctx = private[call[p].file]
      BY DEF RngInv, CallInv, Live
    <2> QED
      BY <2>1, <2>2, <2>3, <2>4 DEF ContextsExact
  <1> QED
    BY <1>1, RngInvariant, PTL

\* No ioctl returns with its buffer, on any path.
THEOREM BufferSafe == RngSpec => []BufferFreed
  <1>1. RngInv => BufferFreed
    BY DEF RngInv, BufInv, BufferFreed
  <1> QED
    BY <1>1, RngInvariant, PTL
=============================================================================
