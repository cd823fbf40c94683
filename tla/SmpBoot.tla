------------------------------- MODULE SmpBoot -------------------------------
(***************************************************************************)
(* smp-imps.c: the bootstrap processor looks for the tables of the Intel   *)
(* multiprocessor specification, and wakes the other processors one after  *)
(* the other: reset, startup interrupts, then a wait of at most Polls      *)
(* delays for the flag the processor sets at bootaddr.  A processor may    *)
(* be dead, may miss an interrupt, and may start after the wait is over.   *)
(* The caller probes, and forces SMP when the probe found nothing.         *)
(***************************************************************************)
EXTENDS Naturals, FiniteSets

CONSTANTS
  NApic,            \* APIC ids are 0 .. NApic - 1
  MaxCpus,          \* IMPS_MAX_CPUS, the length of both maps
  Polls,            \* how often boot_cpu() waits for an answer, 100 times
  Fps               \* the floating pointer structures a BIOS may have

ASSUME SmpAssumption ==
  /\ NApic \in Nat /\ NApic > 1
  /\ MaxCpus \in Nat /\ MaxCpus > NApic + 1
  /\ Polls \in Nat \ {0}
  /\ \A f \in Fps : /\ f.type \in Nat
                    /\ f.cth \in {"none", "good", "bad"}
                    /\ f.lapic_ok \in BOOLEAN

VARIABLES
  phase,            \* where the bootstrap processor is
  bsp,              \* its APIC id
  regions,          \* how many regions imps_probe() has yet to scan
  mode,             \* where the processors come from: "none", "table",
                    \* "default" or "force"
  todo,             \* the processor entries not yet read, by APIC id
  booting,          \* the APIC id of boot_cpu()'s processor
  to,               \* the counter of its loop
  imps_enabled,
  imps_num_cpus,
  imps_cpu_apic_map,
  imps_apic_cpu_map,
  vector,           \* the CMOS reset code and BIOS reset vector are set
  booted,           \* TEST_BOOTED(bootaddr)
  cpu               \* what each processor is doing

mapVars == <<imps_num_cpus, imps_cpu_apic_map, imps_apic_cpu_map>>
vars == <<phase, bsp, regions, mode, todo, booting, to, imps_enabled, mapVars,
          vector, booted, cpu>>

ApicId == 0 .. NApic - 1
CpuNum == 0 .. MaxCpus - 1
Entry  == [enabled : BOOLEAN, boot : BOOLEAN, new : BOOLEAN]
Tables == UNION {[ids -> Entry] : ids \in SUBSET ApicId}

BootSteps == {"patch", "assert", "deassert", "sipi", "sipi2", "poll", "verdict"}

TypeOK ==
  /\ phase \in BootSteps \cup {"probe", "scan", "table", "failed", "done"}
  /\ bsp \in ApicId
  /\ regions \in 0 .. 2
  /\ mode \in {"none", "table", "default", "force"}
  /\ todo \in Tables
  /\ booting \in [apic : ApicId, new : BOOLEAN]
  /\ to \in 0 .. Polls + 1
  /\ imps_enabled \in BOOLEAN
  /\ imps_num_cpus \in CpuNum \ {0}
  /\ imps_cpu_apic_map \in [CpuNum -> ApicId]
  /\ imps_apic_cpu_map \in [ApicId -> CpuNum]
  /\ vector \in BOOLEAN
  /\ booted \in BOOLEAN
  /\ cpu \in [ApicId -> {"halted", "reset", "waiting", "fetching", "starting",
                         "running", "bios"}]

\* The globals are zero, but for imps_num_cpus; the BIOS has halted all
\* processors but one.
Init ==
  /\ phase = "probe"
  /\ bsp \in ApicId
  /\ regions = 2
  /\ mode = "none"
  /\ todo = <<>>
  /\ booting = [apic |-> bsp, new |-> FALSE]
  /\ to = 0
  /\ imps_enabled = FALSE
  /\ imps_num_cpus = 1
  /\ imps_cpu_apic_map = [n \in CpuNum |-> 0]
  /\ imps_apic_cpu_map = [a \in ApicId |-> 0]
  /\ vector = FALSE
  /\ booted = FALSE
  /\ cpu = [a \in ApicId |-> IF a = bsp THEN "running" ELSE "halted"]

----------------------------------------------------------------------------
(* imps_probe(), imps_scan(), imps_read_bios() *)

\* Less than 512K or more than 640K of lower memory is no candidate.
Probe ==
  /\ phase = "probe"
  /\ \E mem_ok \in BOOLEAN : phase' = IF mem_ok THEN "scan" ELSE "failed"
  /\ imps_enabled'  = FALSE
  /\ imps_num_cpus' = 1
  /\ UNCHANGED <<bsp, regions, mode, todo, booting, to, imps_cpu_apic_map,
                 imps_apic_cpu_map, vector, booted, cpu>>

\* The extended BIOS area, or else the last kilobyte of lower memory, and
\* then the ROM.
ScanEmpty ==
  /\ phase = "scan"
  /\ regions' = regions - 1
  /\ phase' = IF regions = 1 THEN "failed" ELSE "scan"
  /\ UNCHANGED <<bsp, mode, todo, booting, to, imps_enabled, mapVars, vector,
                 booted, cpu>>

DefaultMax == 7
BadBios(fps) ==
  \/ fps.type > DefaultMax
  \/ fps.cth = "bad"
  \/ fps.cth = "none" /\ fps.type = 0

\* A structure that cannot be used ends the search too.
ScanBad(fps) ==
  /\ phase = "scan"
  /\ BadBios(fps) \/ ~fps.lapic_ok
  /\ phase' = "failed"
  /\ UNCHANGED <<bsp, regions, mode, todo, booting, to, imps_enabled, mapVars,
                 vector, booted, cpu>>

SetupPrimary ==
  /\ imps_cpu_apic_map' = [imps_cpu_apic_map EXCEPT ![0] = bsp]
  /\ imps_apic_cpu_map' = [imps_apic_cpu_map EXCEPT ![bsp] = 0]

\* defconfig has two processors, and only the one that runs is flagged.
DefaultTable(fps) ==
  [a \in {0, 1} |-> [enabled |-> TRUE, boot |-> a = bsp, new |-> fps.type > 4]]

\* The BIOS lists processors in its table, and flags the one that runs.
BiosTables == {t \in Tables : \A a \in DOMAIN t : t[a].boot = (a = bsp)}

ScanGood(fps) ==
  /\ phase = "scan"
  /\ ~BadBios(fps) /\ fps.lapic_ok
  /\ \/ /\ fps.cth = "good"
        /\ mode' = "table"
        /\ todo' \in BiosTables
        /\ UNCHANGED imps_num_cpus
     \/ /\ fps.cth = "none" /\ bsp \in {0, 1}
        /\ mode' = "default"
        /\ todo' = DefaultTable(fps)
        /\ imps_num_cpus' = 2
  /\ SetupPrimary
  /\ phase' = "table"
  /\ UNCHANGED <<bsp, regions, booting, to, imps_enabled, vector, booted, cpu>>

Scan == ScanEmpty \/ \E fps \in Fps : ScanBad(fps) \/ ScanGood(fps)

(* imps_force(): the caller guesses how many processors there are *)
ImpsForce(ncpus) ==
  /\ phase = "failed" /\ mode = "none"
  /\ SetupPrimary
  /\ mode' = "force"
  /\ todo' = [a \in 0 .. ncpus - 1 |->
                [enabled |-> TRUE, boot |-> a = bsp, new |-> TRUE]]
  /\ phase' = "table"
  /\ UNCHANGED <<bsp, regions, booting, to, imps_enabled, imps_num_cpus, vector,
                 booted, cpu>>

GiveUp ==
  /\ phase = "failed"
  /\ phase' = "done"
  /\ UNCHANGED <<bsp, regions, mode, todo, booting, to, imps_enabled, mapVars,
                 vector, booted, cpu>>

----------------------------------------------------------------------------
(* imps_read_config_table(), add_processor() *)

\* The table may have any order; imps_force() counts upwards.
NextEntry(a) ==
  /\ a \in DOMAIN todo
  /\ mode = "force" => \A b \in DOMAIN todo : a <= b

AddProcessor(a) ==
  /\ phase = "table" /\ NextEntry(a)
  /\ todo' = [b \in DOMAIN todo \ {a} |-> todo[b]]
  /\ IF todo[a].enabled /\ ~todo[a].boot
     THEN /\ phase' = "patch"
          /\ booting' = [apic |-> a, new |-> todo[a].new]
     ELSE UNCHANGED <<phase, booting>>
  /\ UNCHANGED <<bsp, regions, mode, to, imps_enabled, mapVars, vector, booted,
                 cpu>>

\* The end of imps_read_bios() and imps_probe(), or of imps_force().
EndTable ==
  /\ phase = "table" /\ DOMAIN todo = {}
  /\ imps_enabled' = (imps_enabled \/ mode # "force")
  /\ phase' = "done"
  /\ UNCHANGED <<bsp, regions, mode, todo, booting, to, mapVars, vector, booted,
                 cpu>>

----------------------------------------------------------------------------
(* boot_cpu() *)

\* Copying the boot code clears the flag in it.
ClearBootedNot == UNCHANGED booted                        \* copied only once
ClearBooted == booted' = FALSE

\* The CMOS reset code and the BIOS reset vector.
SetVectorNot == UNCHANGED vector                          \* forgets the vector
SetVector == vector' = TRUE

PatchBoot ==
  /\ phase = "patch"
  /\ ClearBooted
  /\ SetVector
  /\ phase'  = "assert"
  /\ UNCHANGED <<bsp, regions, mode, todo, booting, to, imps_enabled, mapVars,
                 cpu>>

\* send_ipi() gives up after a tenth of a second, and nobody asks whether it
\* did: the interrupt may not have arrived.  react is what arrival does.
SendIpi(react) ==
  \E arrived \in BOOLEAN :
    cpu' = IF arrived THEN [cpu EXCEPT ![booting.apic] = react] ELSE cpu

AssertInit ==
  /\ phase = "assert"
  /\ SendIpi("reset")
  /\ phase' = "deassert"
  /\ UNCHANGED <<bsp, regions, mode, todo, booting, to, imps_enabled, mapVars,
                 vector, booted>>

\* Out of reset, an old processor goes where the BIOS sends it; a new one
\* waits for a startup interrupt.
DeassertInit ==
  /\ phase = "deassert"
  /\ SendIpi(IF cpu[booting.apic] # "reset" THEN cpu[booting.apic]
             ELSE IF booting.new THEN "waiting" ELSE "fetching")
  /\ phase' = IF booting.new THEN "sipi" ELSE "poll"
  /\ to' = 0
  /\ UNCHANGED <<bsp, regions, mode, todo, booting, imps_enabled, mapVars,
                 vector, booted>>

SendStartup ==
  /\ phase \in {"sipi", "sipi2"}
  /\ SendIpi(IF cpu[booting.apic] = "waiting" THEN "starting"
             ELSE cpu[booting.apic])
  /\ phase' = IF phase = "sipi" THEN "sipi2" ELSE "poll"
  /\ UNCHANGED <<bsp, regions, mode, todo, booting, to, imps_enabled, mapVars,
                 vector, booted>>

\* while (!TEST_BOOTED(bootaddr) && to++ < Polls)
TimeOutLate == to > Polls                                 \* <= for <
TimeOut == to >= Polls

WaitedNot == to                                           \* loses the ++
Waited == to + 1

PollBooted ==
  /\ phase = "poll"
  /\ to'    = IF booted THEN to ELSE Waited
  /\ phase' = IF booted \/ TimeOut THEN "verdict" ELSE "poll"
  /\ UNCHANGED <<bsp, regions, mode, todo, booting, imps_enabled, mapVars,
                 vector, booted, cpu>>

\* What add_processor() does with a processor that answered.
NumberNext(a) ==                                          \* counts too early
  /\ imps_cpu_apic_map' = [imps_cpu_apic_map EXCEPT ![imps_num_cpus] = a]
  /\ imps_apic_cpu_map' = [imps_apic_cpu_map EXCEPT ![a] = imps_num_cpus + 1]
  /\ imps_num_cpus' = imps_num_cpus + 1
Number(a) ==
  /\ imps_cpu_apic_map' = [imps_cpu_apic_map EXCEPT ![imps_num_cpus] = a]
  /\ imps_apic_cpu_map' = [imps_apic_cpu_map EXCEPT ![a] = imps_num_cpus]
  /\ imps_num_cpus' = imps_num_cpus + 1

\* An answer at the very last test comes too late: to is at Polls by then.
Verdict ==
  /\ phase = "verdict"
  /\ IF TimeOut THEN UNCHANGED mapVars ELSE Number(booting.apic)
  /\ vector' = FALSE
  /\ phase'  = "table"
  /\ UNCHANGED <<bsp, regions, mode, todo, booting, to, imps_enabled, booted,
                 cpu>>

BootCpu ==
  \/ PatchBoot
  \/ AssertInit
  \/ DeassertInit
  \/ SendStartup
  \/ PollBooted
  \/ Verdict

----------------------------------------------------------------------------
(* The other processors *)

cpuUnchanged == <<phase, bsp, regions, mode, todo, booting, to, imps_enabled,
                  mapVars, vector>>

\* The BIOS of an old processor follows the reset vector, if there is one.
FetchVector(a) ==
  /\ cpu[a] = "fetching"
  /\ cpu' = [cpu EXCEPT ![a] = IF vector THEN "starting" ELSE "bios"]
  /\ UNCHANGED <<cpuUnchanged, booted>>

\* The boot code sets the flag.
RunBootCode(a) ==
  /\ cpu[a] = "starting"
  /\ cpu' = [cpu EXCEPT ![a] = "running"]
  /\ booted' = TRUE
  /\ UNCHANGED cpuUnchanged

----------------------------------------------------------------------------
Bootstrap ==
  \/ Probe
  \/ Scan
  \/ \E ncpus \in 1 .. NApic : ImpsForce(ncpus)
  \/ GiveUp
  \/ \E a \in ApicId : AddProcessor(a)
  \/ EndTable
  \/ BootCpu

Next == Bootstrap \/ \E a \in ApicId : FetchVector(a) \/ RunBootCode(a)

Spec == Init /\ [][Next]_vars

\* Only the bootstrap processor is known to go on.
FairSpec == Spec /\ WF_vars(Bootstrap)

----------------------------------------------------------------------------
Running == {a \in ApicId : cpu[a] = "running"}

\* smp-imps.h promises that imps_num_cpus is the number of processors found,
\* and that imps_probe() returns how many were started: no more are returned
\* than run, however late a processor starts and whoever finds its flag set.
NumCpusStarted ==
  phase = "done" => imps_num_cpus <= Cardinality(Running)

\* imps_read_bios() counts the second processor of a default configuration
\* before boot_cpu() does, and again if it starts.
Phantom == IF mode = "default" THEN 1 ELSE 0

\* But for that, each number stands for a processor that runs: the flag is
\* cleared for each attempt, and one start is taken for an answer once at most.
CountsStarts == imps_num_cpus <= Cardinality(Running) + Phantom

\* The maps of imps_read_bios() and add_processor() are each other's inverse on
\* the numbers given: no processor has two numbers and no number two processors.
MapsInverse ==
  mode # "none" =>
    \A n \in 0 .. imps_num_cpus - 1 :
      \/ mode = "default" /\ n = 1
      \/ imps_apic_cpu_map[imps_cpu_apic_map[n]] = n

\* boot_cpu() keeps the reset vector until it stops waiting: an old processor
\* ends in the BIOS only if it came out of reset after that.
VectorKept ==
  phase \in BootSteps => cpu[booting.apic] # "bios"

\* Dead processors and lost interrupts do not keep imps_probe() from returning.
Terminates == <>(phase = "done")

=============================================================================
