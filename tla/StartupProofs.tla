---------------------------- MODULE StartupProofs ----------------------------
(***************************************************************************)
(* Theorems of the start-up, for every set of topics, list of hosts and    *)
(* number of outages, deaths and calls of `docker compose up'.             *)
(***************************************************************************)
EXTENDS Startup, SequenceTheorems, TLAPS

(* The list of hosts is finite.                                            *)
LEMMA ProfilesAreFinite ==
    /\ Len(HostProfiles) \in Nat
    /\ DOMAIN HostProfiles = 1..Len(HostProfiles)
    /\ Hosts = {HostProfiles[i] : i \in 1..Len(HostProfiles)}
BY StartupAssumption, LenProperties DEF Hosts

(* Before anything runs.                                                   *)
LEMMA TypeInit == Init => TypeOK
BY ProfilesAreFinite, StartupAssumption DEF Init, TypeOK, JobStates, ServiceStates, Services

(* What Docker, broker and database do.                                    *)
LEMMA OutsideType ==
    TypeOK /\ (Recover \/ Outage \/ Up \/ Down \/ Compose) => TypeOK'
<1> SUFFICES ASSUME TypeOK, Recover \/ Outage \/ Up \/ Down \/ Compose
             PROVE  TypeOK'
  OBVIOUS
<1> USE DEF TypeOK, infra_vars, job_vars, service_vars, JobStates, ServiceStates
<1>1. CASE Recover
  BY <1>1 DEF Recover
<1>2. CASE Outage
  BY <1>2, StartupAssumption DEF Outage
<1>3. CASE Up
  BY <1>3, StartupAssumption DEF Up
<1>4. CASE Down
  BY <1>4 DEF Down
<1>5. CASE StartJob
  BY <1>5 DEF StartJob
<1>6. ASSUME NEW s \in Services, StartService(s) PROVE TypeOK'
  BY <1>6 DEF StartService
<1>7. CASE UpDone \/ UpAborts
  BY <1>7 DEF UpDone, UpAborts
<1> QED  BY <1>1, <1>2, <1>3, <1>4, <1>5, <1>6, <1>7 DEF Compose

(* What the topic creation job does.                                       *)
LEMMA JobType == TypeOK /\ Job => TypeOK'
<1> SUFFICES ASSUME TypeOK, Job PROVE TypeOK'
  OBVIOUS
<1> USE DEF TypeOK, JobUnchanged, infra_vars, service_vars, JobStates
<1>1. CASE JobFindsBroker \/ JobLacksBroker
  BY <1>1 DEF JobFindsBroker, JobLacksBroker
<1>2. CASE ListTopics
  BY <1>2 DEF ListTopics, MissingTopics
<1>3. CASE CreateTopics
  BY <1>3 DEF CreateTopics, CreateOutcome
<1> QED  BY <1>1, <1>2, <1>3 DEF Job

(* What main() of a service does.                                          *)
LEMMA ServiceType ==
    ASSUME TypeOK, NEW s \in Services, ServiceStep(s) \/ Die(s)
    PROVE  TypeOK'
<1> USE DEF TypeOK, ServiceUnchanged, Goes, infra_vars, job_vars, ServiceStates, Services
<1>1. CASE InitPool(s)
  BY <1>1, ProfilesAreFinite DEF InitPool, AfterPool
<1>2. CASE SeedHost
  <2>1. next_host \in 1..Len(HostProfiles)
    BY <1>2, ProfilesAreFinite DEF SeedHost
  <2>2. next_host' \in 1..(Len(HostProfiles) + 1)
    BY <1>2, <2>1, ProfilesAreFinite DEF SeedHost
  <2>3. hosts' \subseteq Hosts
    BY <1>2, <2>1, ProfilesAreFinite DEF SeedHost
  <2> QED  BY <1>2, <2>2, <2>3 DEF SeedHost
<1>3. CASE HostsSeeded
  BY <1>3 DEF HostsSeeded
<1>4. CASE FindsBroker(s)
  BY <1>4 DEF FindsBroker
<1>5. CASE BuildLLMClient
  BY <1>5 DEF BuildLLMClient
<1>6. CASE ExitAndRestart(s)
  BY <1>6 DEF ExitAndRestart
<1>7. CASE Die(s)
  BY <1>7, StartupAssumption DEF Die
<1> QED  BY <1>1, <1>2, <1>3, <1>4, <1>5, <1>6, <1>7 DEF ServiceStep

(* The variables of the start-up keep their types; no service waits for    *)
(* something that another one's main() does.                               *)
THEOREM TypeCorrect == Spec => []TypeOK
<1>1. TypeOK /\ [Next]_vars => TypeOK'
  <2> SUFFICES ASSUME TypeOK, [Next]_vars PROVE TypeOK'
    OBVIOUS
  <2>1. CASE UNCHANGED vars
    BY <2>1 DEF TypeOK, vars, infra_vars, job_vars, service_vars
  <2> QED  BY <2>1, OutsideType, JobType, ServiceType DEF Next
<1> QED  BY <1>1, TypeInit, PTL DEF Spec
-----------------------------------------------------------------------------
(* What the job has found out is still true when it acts on it, ...        *)
JobKnowsTopics ==
    /\ job = "create_topics" => Topics \ to_create \subseteq topics
    /\ job = "succeeded" => topics = Topics

(* ... and the generator has seeded the profiles it has gone through.      *)
SeededSoFar ==
    service["generator"] = "seed_hosts" =>
        \A i \in 1..Len(HostProfiles) : i < next_host => HostProfiles[i] \in hosts

(* The inductive invariant behind RunningIsPrepared.                       *)
PreparedInv == JobKnowsTopics /\ SeededSoFar /\ RunningIsPrepared

(* Docker starts a service only once the job has succeeded; what goes down *)
(* with the broker goes down together with the services.                   *)
LEMMA OutsidePrepares ==
    TypeOK /\ PreparedInv /\ (Recover \/ Outage \/ Up \/ Down \/ Compose) => PreparedInv'
<1> SUFFICES ASSUME TypeOK, PreparedInv, Recover \/ Outage \/ Up \/ Down \/ Compose
             PROVE  PreparedInv'
  OBVIOUS
<1> USE DEF PreparedInv, JobKnowsTopics, SeededSoFar, RunningIsPrepared,
            infra_vars, job_vars, service_vars
<1>1. CASE Recover \/ Outage
  BY <1>1 DEF Recover, Outage
<1>2. CASE Up
  BY <1>2 DEF Up
<1>3. CASE Down
  BY <1>3 DEF Down, Services
<1>4. CASE StartJob
  BY <1>4 DEF StartJob
<1>5. ASSUME NEW s \in Services, StartService(s) PROVE PreparedInv'
  BY <1>5 DEF StartService, TypeOK, Services
<1>6. CASE UpDone \/ UpAborts
  BY <1>6 DEF UpDone, UpAborts
<1> QED  BY <1>1, <1>2, <1>3, <1>4, <1>5, <1>6 DEF Compose

(* The job succeeds only when every topic exists, found or created.        *)
LEMMA JobPrepares == TypeOK /\ PreparedInv /\ Job => PreparedInv'
<1> SUFFICES ASSUME TypeOK, PreparedInv, Job PROVE PreparedInv'
  OBVIOUS
<1> USE DEF PreparedInv, JobKnowsTopics, SeededSoFar, RunningIsPrepared, JobUnchanged,
            infra_vars, service_vars
<1>1. CASE JobFindsBroker \/ JobLacksBroker
  BY <1>1 DEF JobFindsBroker, JobLacksBroker
<1>2. CASE ListTopics
  BY <1>2 DEF ListTopics, MissingTopics, TypeOK
<1>3. CASE CreateTopics
  <2>1. PICK failed \in SUBSET to_create, created \in SUBSET to_create :
            /\ to_create \ failed \subseteq created
            /\ topics' = topics \cup created
            /\ job' = CreateOutcome(failed)
    BY <1>3 DEF CreateTopics
  <2>2. topics' \subseteq Topics
    BY <2>1 DEF TypeOK
  <2>3. job' = "succeeded" => topics' = Topics
    BY <1>3, <2>1, <2>2 DEF CreateOutcome, CreateTopics
  <2>4. job' # "create_topics"
    BY <2>1 DEF CreateOutcome
  <2>5. topics = Topics => topics' = Topics
    BY <2>1, <2>2
  <2> QED  BY <1>3, <2>3, <2>4, <2>5 DEF CreateTopics
<1> QED  BY <1>1, <1>2, <1>3 DEF Job

(* A service gets past its pool, and the generator past its hosts, only by *)
(* doing its part.                                                         *)
LEMMA ServicePrepares ==
    ASSUME TypeOK, PreparedInv, NEW s \in Services, ServiceStep(s) \/ Die(s)
    PROVE  PreparedInv'
<1> USE DEF PreparedInv, JobKnowsTopics, SeededSoFar, RunningIsPrepared, ServiceUnchanged, Goes,
            infra_vars, job_vars, TypeOK, Services
<1>1. CASE InitPool(s)
  BY <1>1 DEF InitPool, AfterPool
<1>2. CASE SeedHost
  <2>1. \A i \in 1..Len(HostProfiles) :
            i < next_host + 1 => HostProfiles[i] \in hosts \cup {HostProfiles[next_host]}
    <3> SUFFICES ASSUME NEW i \in 1..Len(HostProfiles), i < next_host + 1
                 PROVE  HostProfiles[i] \in hosts \cup {HostProfiles[next_host]}
      OBVIOUS
    <3>1. i < next_host \/ i = next_host
      BY ProfilesAreFinite
    <3> QED  BY <1>2, <3>1 DEF SeedHost
  <2> QED  BY <1>2, <2>1 DEF SeedHost
<1>3. CASE HostsSeeded
  <2>1. \A i \in 1..Len(HostProfiles) : HostProfiles[i] \in hosts
    BY <1>3, ProfilesAreFinite DEF HostsSeeded
  <2>2. hosts = Hosts
    BY <2>1, ProfilesAreFinite
  <2> QED  BY <1>3, <2>2 DEF HostsSeeded
<1>4. CASE FindsBroker(s)
  BY <1>4 DEF FindsBroker
<1>5. CASE BuildLLMClient
  BY <1>5 DEF BuildLLMClient
<1>6. CASE ExitAndRestart(s) \/ Die(s)
  BY <1>6 DEF ExitAndRestart, Die, Stuck
<1> QED  BY <1>1, <1>2, <1>3, <1>4, <1>5, <1>6 DEF ServiceStep

(* Nobody runs without the topics, and the generator not without its hosts,*)
(* whatever fails, dies, goes away or is started again on the way.         *)
THEOREM RunningStaysPrepared == Spec => []RunningIsPrepared
<1>1. Init => PreparedInv
  BY DEF Init, PreparedInv, JobKnowsTopics, SeededSoFar, RunningIsPrepared, Services
<1>2. TypeOK /\ PreparedInv /\ [Next]_vars => PreparedInv'
  <2> SUFFICES ASSUME TypeOK, PreparedInv, [Next]_vars PROVE PreparedInv'
    OBVIOUS
  <2>1. CASE UNCHANGED vars
    BY <2>1 DEF PreparedInv, JobKnowsTopics, SeededSoFar, RunningIsPrepared,
                vars, infra_vars, job_vars, service_vars
  <2> QED  BY <2>1, OutsidePrepares, JobPrepares, ServicePrepares DEF Next
<1>3. PreparedInv => RunningIsPrepared
  BY DEF PreparedInv
<1> QED  BY <1>1, <1>2, <1>3, TypeCorrect, PTL DEF Spec
=============================================================================
