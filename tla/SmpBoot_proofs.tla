--------------------------- MODULE SmpBoot_proofs ---------------------------
(***************************************************************************)
(* For any number of processors, any tables and any number of polls: the   *)
(* count of processors never exceeds those that run, but for the phantom   *)
(* of a default configuration; the maps stay each other's inverse; and the *)
(* reset vector is there for as long as an answer is awaited.              *)
(***************************************************************************)
EXTENDS TLAPS, SmpBoot, FiniteSetTheorems

\* Before a table is found nothing is counted and no processor woken.
NoneYet ==
  /\ mode = "none" => /\ imps_num_cpus = 1
                      /\ \A a \in ApicId \ {bsp} : cpu[a] = "halted"
  /\ phase \in {"probe", "scan"} => mode = "none" /\ regions > 0
  /\ phase \in BootSteps \cup {"table"} => mode # "none"

\* A processor whose entry has not been read is halted.
Untouched ==
  \A a \in DOMAIN todo : /\ todo[a].boot = (a = bsp)
                         /\ a # bsp => cpu[a] = "halted"

\* What the attempt to start a processor knows at each step.
Attempt ==
  phase \in BootSteps =>
    /\ booting.apic # bsp
    /\ booting.apic \notin DOMAIN todo
    /\ phase \in {"patch", "assert"} => cpu[booting.apic] = "halted"
    /\ phase # "patch" => vector
    /\ cpu[booting.apic] # "bios"
    /\ phase \in {"sipi", "sipi2", "poll"} => to <= Polls
    /\ phase = "verdict" /\ ~TimeOut => booted

\* A flag set since it was cleared is a processor that runs and is not counted.
Pending == IF phase \in BootSteps \ {"patch"} /\ booted THEN 1 ELSE 0
Counted == imps_num_cpus + Pending <= Cardinality(Running) + Phantom

\* A number is that of a processor whose entry was read before.
Numbered ==
  mode # "none" =>
    \A n \in 0 .. imps_num_cpus - 1 :
      \/ mode = "default" /\ n = 1
      \/ /\ imps_apic_cpu_map[imps_cpu_apic_map[n]] = n
         /\ imps_cpu_apic_map[n] \notin DOMAIN todo \ {bsp}
         /\ phase \in BootSteps => imps_cpu_apic_map[n] # booting.apic

IInv == TypeOK /\ NoneYet /\ Untouched /\ Attempt /\ Counted /\ Numbered

----------------------------------------------------------------------------
\* What a table is.
LEMMA TableType ==
  ASSUME NEW t \in Tables
  PROVE  /\ DOMAIN t \subseteq ApicId
         /\ \A a \in DOMAIN t : t[a] \in Entry
  BY DEF Tables

LEMMA TableIn ==
  ASSUME NEW ids \in SUBSET ApicId, NEW t \in [ids -> Entry]
  PROVE  t \in Tables
  BY DEF Tables

\* The processors that run can be counted.
LEMMA RunningFinite ==
  IsFiniteSet(Running) /\ Cardinality(Running) \in 0 .. NApic
<1>1. IsFiniteSet(ApicId) /\ Cardinality(ApicId) = NApic
  BY FS_Interval, SmpAssumption DEF ApicId
<1>2. Running \subseteq ApicId
  BY DEF Running
<1>3. IsFiniteSet(Running) /\ Cardinality(Running) <= NApic
  BY <1>1, <1>2, FS_Subset
<1> QED
  BY <1>3, FS_CardinalityType, SmpAssumption

\* At first one processor runs.
LEMMA InitIInv == Init => IInv
<1> SUFFICES ASSUME Init PROVE IInv
  OBVIOUS
<1> USE DEF Init
<1>1. todo \in Tables /\ DOMAIN todo = {}
  <2>1. todo \in [{} -> Entry]
    OBVIOUS
  <2> QED
    BY <2>1, TableIn
<1>2. TypeOK
  <2>1. 0 \in ApicId /\ 0 \in CpuNum /\ 1 \in CpuNum \ {0} /\ 0 \in 0 .. Polls + 1
    BY SmpAssumption DEF CpuNum, ApicId
  <2> QED
    BY <1>1, <2>1 DEF TypeOK, BootSteps
<1>3. NoneYet /\ Untouched /\ Attempt /\ Numbered
  BY <1>1 DEF NoneYet, Untouched, Attempt, Numbered, BootSteps
<1>4. Running = {bsp}
  BY DEF Running
<1>5. Counted
  <2>1. Cardinality({bsp}) = 1
    BY FS_Singleton
  <2> QED
    BY <1>4, <2>1 DEF Counted, Pending, Phantom, BootSteps
<1> QED
  BY <1>2, <1>3, <1>5 DEF IInv

----------------------------------------------------------------------------
\* Actions of the bootstrap processor that wake nobody leave Running alone.
LEMMA SameRunning ==
  ASSUME cpu' = cpu
  PROVE  Cardinality(Running)' = Cardinality(Running)
<1>1. Running' = Running
  BY DEF Running
<1> QED
  BY <1>1

\* The globals already have these values.
LEMMA ProbeStep ==
  ASSUME IInv, Probe
  PROVE  IInv'
<1> USE SmpAssumption DEF IInv, Probe, mapVars
<1>1. TypeOK'
  BY DEF TypeOK, NoneYet, BootSteps, CpuNum
<1>2. NoneYet'
  BY DEF NoneYet, BootSteps, TypeOK
<1>3. Untouched'
  BY DEF Untouched
<1>4. Attempt'
  BY DEF Attempt, BootSteps, TimeOut
<1>5. Counted'
  BY SameRunning, RunningFinite DEF Counted, Pending, Phantom, BootSteps, NoneYet
<1>6. Numbered'
  BY DEF Numbered, BootSteps, NoneYet
<1> QED
  BY <1>1, <1>2, <1>3, <1>4, <1>5, <1>6

\* There is always a region left to scan.
LEMMA ScanEmptyStep ==
  ASSUME IInv, ScanEmpty
  PROVE  IInv'
<1> USE SmpAssumption DEF IInv, ScanEmpty, mapVars
<1>1. TypeOK'
  BY DEF TypeOK, NoneYet, BootSteps, CpuNum
<1>2. NoneYet'
  BY DEF NoneYet, BootSteps, TypeOK
<1>3. Untouched'
  BY DEF Untouched
<1>4. Attempt'
  BY DEF Attempt, BootSteps, TimeOut
<1>5. Counted'
  BY SameRunning, RunningFinite DEF Counted, Pending, Phantom, BootSteps, NoneYet
<1>6. Numbered'
  BY DEF Numbered, BootSteps, NoneYet
<1> QED
  BY <1>1, <1>2, <1>3, <1>4, <1>5, <1>6

\* A structure that is refused leaves all as it was.
LEMMA ScanBadStep ==
  ASSUME NEW fps, IInv, ScanBad(fps)
  PROVE  IInv'
<1> USE SmpAssumption DEF IInv, ScanBad, mapVars
<1>1. TypeOK'
  BY DEF TypeOK, NoneYet, BootSteps, CpuNum
<1>2. NoneYet'
  BY DEF NoneYet, BootSteps, TypeOK
<1>3. Untouched'
  BY DEF Untouched
<1>4. Attempt'
  BY DEF Attempt, BootSteps, TimeOut
<1>5. Counted'
  BY SameRunning, RunningFinite DEF Counted, Pending, Phantom, BootSteps, NoneYet
<1>6. Numbered'
  BY DEF Numbered, BootSteps, NoneYet
<1> QED
  BY <1>1, <1>2, <1>3, <1>4, <1>5, <1>6

\* imps_probe() may fail.
LEMMA GiveUpStep ==
  ASSUME IInv, GiveUp
  PROVE  IInv'
<1> USE SmpAssumption DEF IInv, GiveUp, mapVars
<1>1. TypeOK'
  BY DEF TypeOK, NoneYet, BootSteps, CpuNum
<1>2. NoneYet'
  BY DEF NoneYet, BootSteps, TypeOK
<1>3. Untouched'
  BY DEF Untouched
<1>4. Attempt'
  BY DEF Attempt, BootSteps, TimeOut
<1>5. Counted'
  BY SameRunning, RunningFinite DEF Counted, Pending, Phantom, BootSteps, NoneYet
<1>6. Numbered'
  BY DEF Numbered, BootSteps, NoneYet
<1> QED
  BY <1>1, <1>2, <1>3, <1>4, <1>5, <1>6

\* The table is read.
LEMMA EndTableStep ==
  ASSUME IInv, EndTable
  PROVE  IInv'
<1> USE SmpAssumption DEF IInv, EndTable, mapVars
<1>1. TypeOK'
  BY DEF TypeOK, NoneYet, BootSteps, CpuNum
<1>2. NoneYet'
  BY DEF NoneYet, BootSteps, TypeOK
<1>3. Untouched'
  BY DEF Untouched
<1>4. Attempt'
  BY DEF Attempt, BootSteps, TimeOut
<1>5. Counted'
  BY SameRunning, RunningFinite DEF Counted, Pending, Phantom, BootSteps, NoneYet
<1>6. Numbered'
  BY DEF Numbered, BootSteps, NoneYet
<1> QED
  BY <1>1, <1>2, <1>3, <1>4, <1>5, <1>6

\* The flag is cleared before the attempt, and with it a flag set too late.
LEMMA PatchBootStep ==
  ASSUME IInv, PatchBoot
  PROVE  IInv'
<1> USE SmpAssumption DEF IInv, PatchBoot, ClearBooted, SetVector, mapVars
<1>1. TypeOK'
  BY DEF TypeOK, NoneYet, BootSteps, CpuNum
<1>2. NoneYet'
  BY DEF NoneYet, BootSteps, TypeOK
<1>3. Untouched'
  BY DEF Untouched
<1>4. Attempt'
  BY DEF Attempt, BootSteps, TimeOut
<1>5. Counted'
  BY SameRunning, RunningFinite DEF Counted, Pending, Phantom, BootSteps, NoneYet
<1>6. Numbered'
  BY DEF Numbered, BootSteps, NoneYet
<1> QED
  BY <1>1, <1>2, <1>3, <1>4, <1>5, <1>6

\* The wait ends with the flag set, or with the time over.
LEMMA PollStep ==
  ASSUME IInv, PollBooted
  PROVE  IInv'
<1> USE SmpAssumption DEF IInv, PollBooted, Waited, TimeOut, mapVars
<1>1. TypeOK'
  BY DEF TypeOK, Attempt, BootSteps
<1>2. NoneYet'
  BY DEF NoneYet, BootSteps, TypeOK
<1>3. Untouched'
  BY DEF Untouched
<1>4. Attempt'
  BY DEF Attempt, BootSteps, TypeOK
<1>5. Counted'
  BY SameRunning, RunningFinite DEF Counted, Pending, Phantom, BootSteps, NoneYet
<1>6. Numbered'
  BY DEF Numbered, BootSteps, NoneYet
<1> QED
  BY <1>1, <1>2, <1>3, <1>4, <1>5, <1>6

----------------------------------------------------------------------------
\* A table is found: the bootstrap processor has number 0, and a default
\* configuration counts one more.
LEMMA FoundStep ==
  ASSUME IInv, mode = "none", SetupPrimary, phase' = "table",
         todo' \in Tables, \A a \in DOMAIN todo' : todo'[a].boot = (a = bsp),
         \/ mode' \in {"table", "force"} /\ UNCHANGED imps_num_cpus
         \/ mode' = "default" /\ imps_num_cpus' = 2,
         UNCHANGED <<bsp, regions, booting, to, imps_enabled, vector, booted, cpu>>
  PROVE  IInv'
<1> USE SmpAssumption DEF IInv, SetupPrimary
<1>1. TypeOK'
  <2>1. 0 \in CpuNum /\ 2 \in CpuNum \ {0}
    BY DEF CpuNum
  <2> QED
    BY <2>1 DEF TypeOK
<1>2. NoneYet'
  BY DEF NoneYet, BootSteps, TypeOK
<1>3. Untouched'
  <2>1. DOMAIN todo' \subseteq ApicId
    BY TableType
  <2> QED
    BY <2>1 DEF Untouched, NoneYet
<1>4. Attempt'
  BY DEF Attempt, BootSteps
<1>5. Counted'
  BY SameRunning, RunningFinite DEF Counted, Pending, Phantom, BootSteps, NoneYet
<1>6. Numbered'
  <2>1. imps_cpu_apic_map'[0] = bsp /\ imps_apic_cpu_map'[bsp] = 0
    BY DEF TypeOK, CpuNum
  <2> QED
    BY <2>1 DEF Numbered, BootSteps, NoneYet
<1> QED
  BY <1>1, <1>2, <1>3, <1>4, <1>5, <1>6

\* The entries of a default configuration, and those imps_force() makes up, are
\* flagged as a BIOS flags its own.
LEMMA ScanGoodStep ==
  ASSUME NEW fps \in Fps, IInv, ScanGood(fps)
  PROVE  IInv'
<1>1. mode = "none"
  BY DEF IInv, NoneYet, ScanGood
<1>2. todo' \in Tables /\ \A a \in DOMAIN todo' : todo'[a].boot = (a = bsp)
  <2>1. CASE todo' \in BiosTables
    BY <2>1 DEF BiosTables
  <2>2. CASE todo' = DefaultTable(fps)
    <3>1. {0, 1} \subseteq ApicId
      BY SmpAssumption DEF ApicId
    <3>2. todo' \in [{0, 1} -> Entry]
      BY <2>2, SmpAssumption DEF DefaultTable, Entry
    <3>3. todo' \in Tables
      BY <3>1, <3>2, TableIn
    <3> QED
      BY <2>2, <3>3 DEF DefaultTable
  <2> QED
    BY <2>1, <2>2 DEF ScanGood
<1> QED
  BY <1>1, <1>2, FoundStep DEF ScanGood

LEMMA ImpsForceStep ==
  ASSUME NEW ncpus \in 1 .. NApic, IInv, ImpsForce(ncpus)
  PROVE  IInv'
<1>1. 0 .. ncpus - 1 \subseteq ApicId
  BY SmpAssumption DEF ApicId
<1>2. todo' \in [0 .. ncpus - 1 -> Entry]
  BY DEF ImpsForce, Entry
<1>3. todo' \in Tables
  BY <1>1, <1>2, TableIn
<1>4. \A a \in DOMAIN todo' : todo'[a].boot = (a = bsp)
  BY DEF ImpsForce
<1> QED
  BY <1>3, <1>4, FoundStep DEF ImpsForce

\* An entry is read once; boot_cpu() is called for one that is not flagged.
LEMMA AddProcessorStep ==
  ASSUME NEW a \in ApicId, IInv, AddProcessor(a)
  PROVE  IInv'
<1> USE SmpAssumption DEF IInv, AddProcessor, NextEntry, mapVars
<1>1. /\ DOMAIN todo \subseteq ApicId
      /\ \A b \in DOMAIN todo : todo[b] \in Entry
  BY TableType DEF TypeOK
<1>2. todo' \in Tables
  <2>1. todo' \in [DOMAIN todo \ {a} -> Entry]
    BY <1>1
  <2> QED
    BY <1>1, <2>1, TableIn
<1>3. DOMAIN todo' = DOMAIN todo \ {a} /\ \A b \in DOMAIN todo' : todo'[b] = todo[b]
  OBVIOUS
<1>4. ~todo[a].boot => a # bsp /\ cpu[a] = "halted"
  <2>1. todo[a].boot = (a = bsp) /\ (a # bsp => cpu[a] = "halted")
    BY Zenon DEF Untouched
  <2> QED
    BY <2>1, Zenon
<1>5. TypeOK'
  BY <1>1, <1>2 DEF TypeOK, BootSteps, Entry
<1>6. NoneYet'
  BY DEF NoneYet, BootSteps, TypeOK
<1>7. Untouched'
  BY <1>3 DEF Untouched
<1>8. Attempt'
  <2>1. CASE todo[a].enabled /\ ~todo[a].boot
    <3>1. booting'.apic = a /\ phase' = "patch" /\ a # bsp /\ cpu'[a] = "halted"
      BY <1>4, <2>1
    <3> QED
      BY <1>3, <3>1 DEF Attempt
  <2>2. CASE ~(todo[a].enabled /\ ~todo[a].boot)
    BY <2>2 DEF Attempt, BootSteps
  <2> QED
    BY <2>1, <2>2
<1>9. Counted'
  BY SameRunning, RunningFinite DEF Counted, Pending, Phantom, BootSteps
<1>10. Numbered'
  <2>1. a # bsp => a \in DOMAIN todo \ {bsp}
    OBVIOUS
  <2>2. phase' \in BootSteps => booting'.apic = a /\ a # bsp
    BY <1>4 DEF BootSteps
  <2> QED
    BY <1>3, <2>1, <2>2 DEF Numbered, NoneYet, BootSteps
<1> QED
  BY <1>5, <1>6, <1>7, <1>8, <1>9, <1>10

\* An answer in time is numbered; its processor has no number yet.
LEMMA VerdictStep ==
  ASSUME IInv, Verdict
  PROVE  IInv'
<1> USE SmpAssumption DEF IInv, Verdict, mapVars
<1>1. imps_num_cpus' <= Cardinality(Running) + Phantom
  <2>1. CASE TimeOut
    BY <2>1, RunningFinite DEF Counted, Pending, Phantom, TypeOK, CpuNum, BootSteps
  <2>2. CASE ~TimeOut
    BY <2>2, RunningFinite DEF Counted, Pending, Phantom, TypeOK, CpuNum, BootSteps,
                               Attempt, Number
  <2> QED
    BY <2>1, <2>2
<1>2. TypeOK'
  <2>1. CASE TimeOut
    BY <2>1 DEF TypeOK, BootSteps
  <2>2. CASE ~TimeOut
    <3>1. imps_num_cpus' \in CpuNum \ {0} /\ imps_num_cpus \in CpuNum
      BY <1>1, <2>2, RunningFinite DEF TypeOK, CpuNum, Number, Phantom
    <3> QED
      BY <2>2, <3>1 DEF TypeOK, BootSteps, Number
  <2> QED
    BY <2>1, <2>2
<1>3. NoneYet'
  BY DEF NoneYet, BootSteps, TypeOK
<1>4. Untouched'
  BY DEF Untouched
<1>5. Attempt'
  BY DEF Attempt, BootSteps
<1>6. Counted'
  <2>1. Cardinality(Running)' = Cardinality(Running) /\ Phantom' = Phantom
    BY SameRunning DEF Phantom
  <2>2. Pending' = 0
    BY DEF Pending, BootSteps
  <2>3. imps_num_cpus' \in Nat
    BY <1>2 DEF TypeOK, CpuNum
  <2> QED
    BY <1>1, <2>1, <2>2, <2>3 DEF Counted
<1>7. Numbered'
  <2>1. CASE TimeOut
    BY <2>1 DEF Numbered, BootSteps, NoneYet
  <2>2. CASE ~TimeOut
    <3>1. booting.apic \in ApicId /\ imps_num_cpus \in CpuNum
      BY DEF TypeOK
    <3>2. /\ imps_cpu_apic_map'[imps_num_cpus] = booting.apic
          /\ imps_apic_cpu_map'[booting.apic] = imps_num_cpus
          /\ booting.apic \notin DOMAIN todo
      BY <2>2, <3>1 DEF TypeOK, Number, Attempt, BootSteps
    <3>3. ASSUME NEW n \in 0 .. imps_num_cpus - 1, ~(mode = "default" /\ n = 1)
          PROVE  /\ imps_apic_cpu_map'[imps_cpu_apic_map'[n]] = n
                 /\ imps_cpu_apic_map'[n] \notin DOMAIN todo \ {bsp}
      <4>1. n \in CpuNum /\ n # imps_num_cpus
        BY <3>1 DEF CpuNum
      <4>2. imps_cpu_apic_map'[n] = imps_cpu_apic_map[n]
        BY <2>2, <4>1 DEF TypeOK, Number
      <4>3. /\ imps_apic_cpu_map[imps_cpu_apic_map[n]] = n
            /\ imps_cpu_apic_map[n] \notin DOMAIN todo \ {bsp}
            /\ imps_cpu_apic_map[n] # booting.apic
        BY <3>3 DEF Numbered, NoneYet, BootSteps
      <4>4. imps_cpu_apic_map[n] \in ApicId
        BY <4>1 DEF TypeOK
      <4> QED
        BY <2>2, <4>2, <4>3, <4>4 DEF TypeOK, Number
    <3>4. imps_num_cpus' = imps_num_cpus + 1
      BY <2>2 DEF Number
    <3>5. \A n \in 0 .. imps_num_cpus' - 1 : n \in 0 .. imps_num_cpus - 1 \/ n = imps_num_cpus
      BY <3>1, <3>4 DEF CpuNum
    <3> QED
      BY <3>2, <3>3, <3>5 DEF Numbered, BootSteps
  <2> QED
    BY <2>1, <2>2
<1> QED
  BY <1>2, <1>3, <1>4, <1>5, <1>6, <1>7

----------------------------------------------------------------------------
\* A processor that did not run, and does not, does not change the count.
LEMMA MoveOther ==
  ASSUME TypeOK, NEW a \in ApicId, NEW r,
         cpu' \in {cpu, [cpu EXCEPT ![a] = r]},
         r = cpu[a] \/ (r # "running" /\ cpu[a] # "running")
  PROVE  Cardinality(Running)' = Cardinality(Running)
<1>1. Running' = Running
  BY DEF Running, TypeOK
<1> QED
  BY <1>1

\* An interrupt to the processor being started, which arrives or not.
LEMMA IpiStep ==
  ASSUME IInv, NEW react, SendIpi(react),
         phase \in {"assert", "deassert", "sipi", "sipi2"},
         \/ react = cpu[booting.apic]
         \/ /\ react \in {"reset", "waiting", "fetching", "starting"}
            /\ cpu[booting.apic] # "running",
         phase' \in {"deassert", "sipi", "sipi2", "poll"},
         phase' = "deassert" => to' = to,
         phase' # "deassert" => to' = 0 \/ (phase \in {"sipi", "sipi2"} /\ to' = to),
         UNCHANGED <<bsp, regions, mode, todo, booting, imps_enabled, mapVars, vector,
                     booted>>
  PROVE  IInv'
<1> USE SmpAssumption DEF IInv, mapVars
<1>1. booting.apic \in ApicId
  BY DEF TypeOK
<1>2. cpu' \in {cpu, [cpu EXCEPT ![booting.apic] = react]}
  BY DEF SendIpi
<1>3. Cardinality(Running)' = Cardinality(Running)
  <2>1. react = cpu[booting.apic] \/ (react # "running" /\ cpu[booting.apic] # "running")
    OBVIOUS
  <2> QED
    BY <1>1, <1>2, <2>1, MoveOther
<1>4. TypeOK'
  <2>1. cpu' \in [ApicId -> {"halted", "reset", "waiting", "fetching", "starting",
                             "running", "bios"}]
    BY <1>1, <1>2 DEF TypeOK
  <2> QED
    BY <2>1 DEF TypeOK, BootSteps
<1>5. NoneYet'
  BY DEF NoneYet, BootSteps, TypeOK
<1>6. Untouched'
  <2>1. DOMAIN todo \subseteq ApicId /\ booting.apic \notin DOMAIN todo
    BY TableType DEF TypeOK, Attempt, BootSteps
  <2>2. \A a \in DOMAIN todo : cpu'[a] = cpu[a]
    BY <1>2, <2>1 DEF TypeOK
  <2> QED
    BY <2>2 DEF Untouched
<1>7. Attempt'
  BY <1>1, <1>2 DEF Attempt, BootSteps, TypeOK
<1>8. Counted'
  BY <1>3, RunningFinite DEF Counted, Pending, Phantom, BootSteps
<1>9. Numbered'
  BY DEF Numbered, BootSteps
<1> QED
  BY <1>4, <1>5, <1>6, <1>7, <1>8, <1>9

LEMMA AssertInitStep ==
  ASSUME IInv, AssertInit
  PROVE  IInv'
<1>1. cpu[booting.apic] = "halted"
  BY DEF IInv, Attempt, AssertInit, BootSteps
<1> QED
  BY <1>1, IpiStep DEF AssertInit

LEMMA DeassertInitStep ==
  ASSUME IInv, DeassertInit
  PROVE  IInv'
<1> DEFINE react == IF cpu[booting.apic] # "reset" THEN cpu[booting.apic]
                    ELSE IF booting.new THEN "waiting" ELSE "fetching"
<1>1. SendIpi(react)
  BY DEF DeassertInit
<1>2. \/ react = cpu[booting.apic]
      \/ /\ react \in {"reset", "waiting", "fetching", "starting"}
         /\ cpu[booting.apic] # "running"
  OBVIOUS
<1> HIDE DEF react
<1> QED
  BY <1>1, <1>2, IpiStep DEF DeassertInit

LEMMA SendStartupStep ==
  ASSUME IInv, SendStartup
  PROVE  IInv'
<1> DEFINE react == IF cpu[booting.apic] = "waiting" THEN "starting"
                    ELSE cpu[booting.apic]
<1>1. SendIpi(react)
  BY DEF SendStartup
<1>2. \/ react = cpu[booting.apic]
      \/ /\ react \in {"reset", "waiting", "fetching", "starting"}
         /\ cpu[booting.apic] # "running"
  OBVIOUS
<1> HIDE DEF react
<1> QED
  BY <1>1, <1>2, IpiStep DEF SendStartup

----------------------------------------------------------------------------
\* While an answer is awaited the vector is there to be followed.
LEMMA FetchVectorStep ==
  ASSUME NEW a \in ApicId, IInv, FetchVector(a)
  PROVE  IInv'
<1> USE SmpAssumption DEF IInv, FetchVector, cpuUnchanged, mapVars
<1>1. DOMAIN todo \subseteq ApicId
  BY TableType DEF TypeOK
<1>2. \E r \in {"starting", "bios"} :
         cpu' = [cpu EXCEPT ![a] = r] /\ (vector => r = "starting")
  OBVIOUS
<1>3. Cardinality(Running)' = Cardinality(Running)
  <2>1. PICK r \in {"starting", "bios"} : cpu' = [cpu EXCEPT ![a] = r]
    BY <1>2
  <2>2. r # "running" /\ cpu[a] # "running"
    BY <2>1
  <2>3. cpu' \in {cpu, [cpu EXCEPT ![a] = r]}
    BY <2>1
  <2>4. TypeOK
    OBVIOUS
  <2> QED
    BY ONLY <2>2, <2>3, <2>4, MoveOther
<1>4. TypeOK'
  BY <1>2 DEF TypeOK
<1>5. NoneYet'
  BY <1>2 DEF NoneYet, BootSteps, TypeOK
<1>6. Untouched'
  BY <1>1, <1>2 DEF Untouched, TypeOK
<1>7. Attempt'
  BY <1>2 DEF Attempt, BootSteps, TimeOut, TypeOK
<1>8. Counted'
  BY <1>3, RunningFinite DEF Counted, Pending, Phantom
<1>9. Numbered'
  BY DEF Numbered
<1> QED
  BY <1>4, <1>5, <1>6, <1>7, <1>8, <1>9

\* Whoever sets the flag is one more that runs.
LEMMA RunBootCodeStep ==
  ASSUME NEW a \in ApicId, IInv, RunBootCode(a)
  PROVE  IInv'
<1> USE SmpAssumption DEF IInv, RunBootCode, cpuUnchanged, mapVars
<1>1. DOMAIN todo \subseteq ApicId
  BY TableType DEF TypeOK
<1>2. Cardinality(Running)' = Cardinality(Running) + 1
  <2>1. Running' = Running \cup {a} /\ a \notin Running
    BY DEF Running, TypeOK
  <2> QED
    BY <2>1, RunningFinite, FS_AddElement
<1>3. TypeOK'
  BY DEF TypeOK
<1>4. NoneYet'
  BY DEF NoneYet, BootSteps, TypeOK
<1>5. Untouched'
  BY <1>1 DEF Untouched, TypeOK
<1>6. Attempt'
  BY DEF Attempt, BootSteps, TimeOut, TypeOK
<1>7. Counted'
  <2>1. Pending \in {0, 1} /\ Pending' \in {0, 1}
    BY DEF Pending
  <2>2. imps_num_cpus \in Nat /\ Phantom \in {0, 1} /\ Phantom' = Phantom
    BY DEF Phantom, TypeOK, CpuNum
  <2> QED
    BY <1>2, <2>1, <2>2, RunningFinite DEF Counted
<1>8. Numbered'
  BY DEF Numbered
<1> QED
  BY <1>3, <1>4, <1>5, <1>6, <1>7, <1>8

----------------------------------------------------------------------------
LEMMA IInvStep == IInv /\ [Next]_vars => IInv'
<1> SUFFICES ASSUME IInv, [Next]_vars PROVE IInv'
  OBVIOUS
<1>1. CASE Bootstrap
  <2>1. CASE Probe
    BY <2>1, ProbeStep
  <2>2. CASE Scan
    BY <2>2, ScanEmptyStep, ScanBadStep, ScanGoodStep DEF Scan
  <2>3. ASSUME NEW ncpus \in 1 .. NApic, ImpsForce(ncpus) PROVE IInv'
    BY <2>3, ImpsForceStep
  <2>4. CASE GiveUp
    BY <2>4, GiveUpStep
  <2>5. ASSUME NEW a \in ApicId, AddProcessor(a) PROVE IInv'
    BY <2>5, AddProcessorStep
  <2>6. CASE EndTable
    BY <2>6, EndTableStep
  <2>7. CASE BootCpu
    BY <2>7, PatchBootStep, AssertInitStep, DeassertInitStep, SendStartupStep,
       PollStep, VerdictStep DEF BootCpu
  <2> QED
    BY <1>1, <2>1, <2>2, <2>3, <2>4, <2>5, <2>6, <2>7 DEF Bootstrap
<1>2. ASSUME NEW a \in ApicId, FetchVector(a) PROVE IInv'
  BY <1>2, FetchVectorStep
<1>3. ASSUME NEW a \in ApicId, RunBootCode(a) PROVE IInv'
  BY <1>3, RunBootCodeStep
<1>4. CASE UNCHANGED vars
  <2>1. Cardinality(Running)' = Cardinality(Running)
    BY <1>4, SameRunning DEF vars
  <2> QED
    BY <1>4, <2>1 DEF vars, mapVars, IInv, TypeOK, NoneYet, Untouched, Attempt,
                      TimeOut, Counted, Pending, Phantom, Numbered
<1> QED
  BY <1>1, <1>2, <1>3, <1>4 DEF Next

LEMMA IInvAlways == Spec => []IInv
  BY InitIInv, IInvStep, PTL DEF Spec

\* smp-imps.c keeps its types: neither map is written past its end, and the
\* counter of the wait stays within one of its bound.
THEOREM TypeCorrect == Spec => []TypeOK
  BY IInvAlways, PTL DEF IInv

\* add_processor() counts a processor only if one has started since the flag
\* was cleared, whichever it was.
THEOREM StartsCounted == Spec => []CountsStarts
<1>1. IInv => CountsStarts
  <2> SUFFICES ASSUME IInv PROVE CountsStarts
    OBVIOUS
  <2>1. imps_num_cpus \in Nat /\ Phantom \in {0, 1} /\ Pending \in {0, 1}
    BY DEF IInv, TypeOK, CpuNum, Phantom, Pending
  <2> QED
    BY <2>1, RunningFinite DEF IInv, Counted, CountsStarts
<1> QED
  BY <1>1, IInvAlways, PTL

\* imps_cpu_apic_map and imps_apic_cpu_map stay each other's inverse.
THEOREM MapsStayInverse == Spec => []MapsInverse
<1>1. IInv => MapsInverse
  BY DEF IInv, Numbered, MapsInverse
<1> QED
  BY <1>1, IInvAlways, PTL

\* boot_cpu() does not take the reset vector back too early.
THEOREM VectorIsKept == Spec => []VectorKept
<1>1. IInv => VectorKept
  BY DEF IInv, Attempt, VectorKept
<1> QED
  BY <1>1, IInvAlways, PTL

=============================================================================
