------------------------------- MODULE Startup -------------------------------
(***************************************************************************)
(* How the system comes up (docker-compose.yml): `docker compose up' runs  *)
(* the kafka-init job once the broker is healthy, and the three services   *)
(* once the job has succeeded and the database is healthy.  A service opens*)
(* its connection pool, the generator seeds the table hosts, all wait for  *)
(* the broker, and the agent builds its LLM client; whatever raises on the *)
(* way ends the process, which is then started again.  Broker and database *)
(* go away and come back as they like.                                     *)
(***************************************************************************)
EXTENDS Naturals, Sequences, FiniteSets

CONSTANTS
    Topics,        \* ALL_TOPICS
    HostProfiles,  \* HOST_PROFILES, a sequence of hosts
    MaxOutages,    \* bound: times the broker or the database goes away
    MaxDeaths,     \* bound: running services that die
    MaxUps         \* bound: times `docker compose up' is called

Services == {"generator", "detector", "agent"}

Hosts == {HostProfiles[i] : i \in DOMAIN HostProfiles}

ASSUME StartupAssumption ==
    /\ HostProfiles \in Seq(Hosts)
    /\ MaxOutages \in Nat
    /\ MaxDeaths \in Nat
    /\ MaxUps \in Nat

VARIABLES
    broker, database,  \* "up" or "down"
    topics,            \* topics the broker has
    hosts,             \* table hosts
    llm_configured,    \* the key of the chosen LLM provider is set
    compose,           \* `docker compose up': "none", "starting", "done" or "aborted"
    job,               \* the container of kafka-init
    to_create,         \* create_topics_idempotent's local
    service,           \* how far main() of each service has come
    next_host,         \* seed_hosts: the index of the next profile
    outages, deaths, ups

infra_vars == <<broker, database, llm_configured, outages>>

job_vars == <<job, to_create, topics>>

service_vars == <<service, next_host, hosts, deaths>>

vars == <<infra_vars, compose, job_vars, service_vars, ups>>

JobStates == {"absent", "created", "wait_for_broker", "list_topics", "create_topics",
              "succeeded", "failed"}

ServiceStates == {"absent", "init_pool", "seed_hosts", "wait_for_broker", "build_llm_client",
                  "running"}

TypeOK ==
    /\ broker \in {"up", "down"} /\ database \in {"up", "down"}
    /\ topics \subseteq Topics
    /\ hosts \subseteq Hosts
    /\ compose \in {"none", "starting", "done", "aborted"}
    /\ job \in JobStates
    /\ to_create \subseteq Topics
    /\ service \in [Services -> ServiceStates]
    /\ next_host \in 1..(Len(HostProfiles) + 1)
    /\ \A s \in Services \ {"generator"} : service[s] # "seed_hosts"
    /\ \A s \in Services \ {"agent"} : service[s] # "build_llm_client"
    /\ outages \in 0..MaxOutages /\ deaths \in 0..MaxDeaths /\ ups \in 0..MaxUps

Init ==
    /\ broker = "down" /\ database = "down"
    /\ topics = {} /\ hosts = {}
    /\ llm_configured \in BOOLEAN
    /\ compose = "none" /\ job = "absent" /\ to_create = {}
    /\ service = [s \in Services |-> "absent"]
    /\ next_host = 1
    /\ outages = 0 /\ deaths = 0 /\ ups = 0
-----------------------------------------------------------------------------
(* Broker and database come up and go away, with what they hold.           *)
Recover ==
    /\ \/ broker = "down" /\ broker' = "up" /\ UNCHANGED database
       \/ database = "down" /\ database' = "up" /\ UNCHANGED broker
    /\ UNCHANGED <<llm_configured, outages, compose, job_vars, service_vars, ups>>

Outage ==
    /\ outages < MaxOutages
    /\ outages' = outages + 1
    /\ \/ broker = "up" /\ broker' = "down" /\ UNCHANGED database
       \/ database = "up" /\ database' = "down" /\ UNCHANGED broker
    /\ UNCHANGED <<llm_configured, compose, job_vars, service_vars, ups>>

(* make up: containers that run are left alone, the job's is started again.*)
Up ==
    /\ compose # "starting"
    /\ ups < MaxUps
    /\ ups' = ups + 1
    /\ compose' = "starting"
    /\ job' = "created"
    /\ UNCHANGED <<infra_vars, to_create, topics, service_vars>>

(* make down: the broker keeps its topics in its container, the database   *)
(* its tables in a volume.                                                 *)
Down ==
    /\ ups > 0
    /\ ups < MaxUps
    /\ compose' = "none"
    /\ job' = "absent"
    /\ to_create' = {}
    /\ topics' = {}
    /\ broker' = "down" /\ database' = "down"
    /\ service' = [s \in Services |-> "absent"]
    /\ UNCHANGED <<llm_configured, outages, next_host, hosts, deaths, ups>>

(* kafka-init depends on kafka: service_healthy.                           *)
StartJob ==
    /\ compose = "starting"
    /\ job = "created"
    /\ broker = "up"
    /\ job' = "wait_for_broker"
    /\ UNCHANGED <<infra_vars, compose, to_create, topics, service_vars, ups>>

(* A service depends on kafka-init: service_completed_successfully, and on *)
(* postgres: service_healthy.                                              *)
StartService(s) ==
    /\ compose = "starting"
    /\ job = "succeeded"
    /\ database = "up"
    /\ service[s] = "absent"
    /\ service' = [service EXCEPT ![s] = "init_pool"]
    /\ UNCHANGED <<infra_vars, compose, job_vars, next_host, hosts, deaths, ups>>

UpDone ==
    /\ compose = "starting"
    /\ job = "succeeded"
    /\ \A s \in Services : service[s] # "absent"
    /\ compose' = "done"
    /\ UNCHANGED <<infra_vars, job_vars, service_vars, ups>>

(* A dependency did not become healthy in its retries, or the job failed.  *)
UpAborts ==
    /\ compose = "starting"
    /\ \/ job = "failed"
       \/ job = "created" /\ broker = "down"
       \/ job = "succeeded" /\ database = "down"
    /\ compose' = "aborted"
    /\ UNCHANGED <<infra_vars, job_vars, service_vars, ups>>
-----------------------------------------------------------------------------
(* The kafka-init job                                                      *)

JobUnchanged == UNCHANGED <<infra_vars, compose, service_vars, ups>>

JobFindsBroker ==
    /\ job = "wait_for_broker"
    /\ broker = "up"
    /\ job' = "list_topics"
    /\ UNCHANGED <<to_create, topics>>
    /\ JobUnchanged

(* 90 s without an answer, or a listing that fails: the exception is not   *)
(* caught, and the job is not restarted.                                   *)
JobLacksBroker ==
    /\ job \in {"wait_for_broker", "list_topics"}
    /\ broker = "down"
    /\ job' = "failed"
    /\ UNCHANGED <<to_create, topics>>
    /\ JobUnchanged

(* Faulty: topics that exist are created once more.                        *)
MissingTopicsAll == Topics

MissingTopics == Topics \ topics

ListTopics ==
    /\ job = "list_topics"
    /\ broker = "up"
    /\ to_create' = MissingTopics
    /\ job' = IF to_create' = {} THEN "succeeded" ELSE "create_topics"
    /\ UNCHANGED topics
    /\ JobUnchanged

(* Faulty: the failure is logged, and that is all.                         *)
CreateOutcomeLogged(failed) == "succeeded"

(* The first future that fails is raised again, and ends the job.          *)
CreateOutcome(failed) == IF failed = {} THEN "succeeded" ELSE "failed"

(* One request for all topics, with one future each: creating a topic that *)
(* exists fails, and so does what an outage interrupts, done or not.       *)
CreateTopics ==
    /\ job = "create_topics"
    /\ \E failed \in SUBSET to_create, created \in SUBSET to_create :
         /\ to_create \cap topics \subseteq failed
         /\ to_create \ failed \subseteq created
         /\ broker = "up" => failed = to_create \cap topics /\ created = to_create
         /\ topics' = topics \cup created
         /\ job' = CreateOutcome(failed)
    /\ UNCHANGED to_create
    /\ JobUnchanged

Job == JobFindsBroker \/ JobLacksBroker \/ ListTopics \/ CreateTopics
-----------------------------------------------------------------------------
(* main() of a service                                                     *)

ServiceUnchanged == UNCHANGED <<infra_vars, compose, job_vars, deaths, ups>>

Goes(s, to) == service' = [service EXCEPT ![s] = to]

(* Faulty: every service seeds the hosts.                                  *)
AfterPoolSeed(s) == "seed_hosts"

AfterPool(s) == IF s = "generator" THEN "seed_hosts" ELSE "wait_for_broker"

(* init_pool: thirty attempts, of which one reaches the database.          *)
InitPool(s) ==
    /\ service[s] = "init_pool"
    /\ database = "up"
    /\ Goes(s, AfterPool(s))
    /\ next_host' = IF s = "generator" THEN 1 ELSE next_host
    /\ UNCHANGED hosts
    /\ ServiceUnchanged

(* One INSERT ... ON CONFLICT DO NOTHING per host profile.                 *)
SeedHost ==
    /\ service["generator"] = "seed_hosts"
    /\ next_host <= Len(HostProfiles)
    /\ database = "up"
    /\ hosts' = hosts \cup {HostProfiles[next_host]}
    /\ next_host' = next_host + 1
    /\ UNCHANGED service
    /\ ServiceUnchanged

HostsSeeded ==
    /\ service["generator"] = "seed_hosts"
    /\ next_host > Len(HostProfiles)
    /\ Goes("generator", "wait_for_broker")
    /\ UNCHANGED <<next_host, hosts>>
    /\ ServiceUnchanged

(* The broker answers within 60 s.                                         *)
FindsBroker(s) ==
    /\ service[s] = "wait_for_broker"
    /\ broker = "up"
    /\ Goes(s, IF s = "agent" THEN "build_llm_client" ELSE "running")
    /\ UNCHANGED <<next_host, hosts>>
    /\ ServiceUnchanged

BuildLLMClient ==
    /\ service["agent"] = "build_llm_client"
    /\ llm_configured
    /\ Goes("agent", "running")
    /\ UNCHANGED <<next_host, hosts>>
    /\ ServiceUnchanged

(* What main() is doing cannot be done.                                    *)
Stuck(s) ==
    \/ service[s] = "init_pool" /\ database = "down"
    \/ /\ service[s] = "seed_hosts"
       /\ next_host <= Len(HostProfiles)
       /\ database = "down"
    \/ service[s] = "wait_for_broker" /\ broker = "down"
    \/ service[s] = "build_llm_client" /\ ~llm_configured

(* main() raises, and the container is started again: unless-stopped.      *)
ExitAndRestart(s) ==
    /\ Stuck(s)
    /\ Goes(s, "init_pool")
    /\ UNCHANGED <<next_host, hosts>>
    /\ ServiceUnchanged

ServiceStep(s) ==
    \/ InitPool(s)
    \/ s = "generator" /\ (SeedHost \/ HostsSeeded)
    \/ FindsBroker(s)
    \/ s = "agent" /\ BuildLLMClient
    \/ ExitAndRestart(s)

(* A running service dies.                                                 *)
Die(s) ==
    /\ service[s] = "running"
    /\ deaths < MaxDeaths
    /\ deaths' = deaths + 1
    /\ Goes(s, "init_pool")
    /\ UNCHANGED <<infra_vars, compose, job_vars, next_host, hosts, ups>>

Compose == StartJob \/ (\E s \in Services : StartService(s)) \/ UpDone \/ UpAborts

Next ==
    \/ Recover \/ Outage \/ Up \/ Down
    \/ Compose \/ Job
    \/ \E s \in Services : ServiceStep(s) \/ Die(s)

Spec == Init /\ [][Next]_vars

(* Docker, the job and the processes take the steps they can; nobody is    *)
(* obliged to bring broker or database back, or to call `up' again.        *)
FairSpec ==
    /\ Spec
    /\ WF_vars(Compose) /\ WF_vars(Job)
    /\ \A s \in Services : WF_vars(ServiceStep(s))
-----------------------------------------------------------------------------
(* wait_for_broker only looks for a broker, and the topics are not created *)
(* automatically: that they exist for whoever runs, and that metrics rows  *)
(* find their hosts, rests on the order in which things start, across      *)
(* failed jobs, restarts and a second `up' (create_topics.py:1-5,          *)
(* docker-compose.yml:98-102, generator/app/main.py:89-93).                *)
RunningIsPrepared ==
    /\ \A s \in Services : service[s] # "absent" => topics = Topics
    /\ service["generator"] \in {"wait_for_broker", "running"} => hosts = Hosts

InfraUp == broker = "up" /\ database = "up"

Settled(s) ==
    service[s] \in {"absent", "running"} \/ (s = "agent" /\ ~llm_configured)

(* An `up' whose broker and database stay up completes, also when an       *)
(* earlier one was interrupted half-way (kafka_utils.py:109-110, `safe to  *)
(* call repeatedly').                                                      *)
UpCompletes ==
    (compose = "starting" /\ job = "created" /\ []InfraUp)
        ~> (compose \in {"none", "done"})

(* A service that was started ends up running once broker and database stay*)
(* up, however often it had to give up before; of the agent this takes a   *)
(* configured provider (docker-compose.yml:108, 124, 140).                 *)
StartedServicesRun == <>[]InfraUp => <>[](\A s \in Services : Settled(s))

ComesUp == UpCompletes /\ StartedServicesRun
=============================================================================
