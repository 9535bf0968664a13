------------------------------ MODULE Identity ------------------------------
(***************************************************************************)
(* From an alert's labels to its incident identity and the identity's      *)
(* workflow_ids.                                                           *)
(*                                                                         *)
(* The name of a Kubernetes object is the sequence of its segments, the    *)
(* parts between its hyphens; what the code finds out about the characters *)
(* of a segment is which of the constant sets it is in.  Such names are    *)
(* DNS labels of up to 63 characters, which SanitizeK8sName leaves alone.  *)
(* An alert name, which may hold anything, and a workflow_id are sequences *)
(* of symbols.  No two inputs spell the same text differently.             *)
(***************************************************************************)
EXTENDS Integers, Sequences

CONSTANTS
    Symbols,    \* what names, alert names and numerals are sequences of
    Ordinals,   \* segments of digits only
    Stamps,     \* those of eight digits between 26000000 and 40000000
    PodHashes,  \* segments of exactly five characters of k8sGeneratedChars
    SetHashes,  \* segments of eight to ten of them
    Rejected,   \* symbols that SanitizeLabelValue drops
    Numeral     \* strconv.Itoa: from positive numbers to sequences of digits

AttemptDelimiter == "#"

ASSUME IdentityAssumption ==
    /\ Stamps \subseteq Ordinals
    /\ {"/", AttemptDelimiter} \subseteq Rejected
    /\ {"cluster", "unknown"} \subseteq Symbols \ Rejected

ASSUME NumeralAssumption ==
    /\ DOMAIN Numeral \subseteq Nat \ {0}
    /\ \A n \in DOMAIN Numeral :
          /\ Numeral[n] \in Seq(Symbols)
          /\ \A i \in 1..Len(Numeral[n]) : Numeral[n][i] # AttemptDelimiter
    /\ \A m, n \in DOMAIN Numeral : Numeral[m] = Numeral[n] => m = n

-----------------------------------------------------------------------------
(* The workload a name belongs to.                                          *)

Without(name, k) == SubSeq(name, 1, Len(name) - k)

normalizeCronJobName(jobName) ==
    IF Len(jobName) >= 2 /\ jobName[Len(jobName)] \in Stamps
    THEN Without(jobName, 1)
    ELSE jobName

normalizePodName_Unchanged(podName) == podName

\* Deployment pods lose two segments, DaemonSet pods one, StatefulSet pods none.
normalizePodName(podName) ==
    LET n    == Len(podName)
        last == podName[n]
    IN  IF n < 2 \/ last \in Ordinals \/ last \notin PodHashes THEN podName
        ELSE IF n >= 3 /\ podName[n - 1] \in SetHashes THEN Without(podName, 2)
        ELSE Without(podName, 1)

-----------------------------------------------------------------------------
(* The identity.                                                            *)

SanitizeLabelValue_KeepsAll(value) == IF value = <<>> THEN <<"unknown">> ELSE value

\* strings.Map: the symbols that stay.
Safe(value) ==
    LET safe[i \in 0..Len(value)] ==
            IF i = 0 THEN <<>>
            ELSE IF value[i] \in Rejected THEN safe[i - 1] ELSE Append(safe[i - 1], value[i])
    IN  safe[Len(value)]

SanitizeLabelValue(value) == IF Safe(value) = <<>> THEN <<"unknown">> ELSE Safe(value)

\* The labels that may name the incident's subject, the most owner-like first.
Subjects ==
    << [label |-> "deployment",  kind |-> "Deployment"],
       [label |-> "statefulset", kind |-> "StatefulSet"],
       [label |-> "daemonset",   kind |-> "DaemonSet"],
       [label |-> "cronjob",     kind |-> "CronJob"],
       [label |-> "job_name",    kind |-> "Job"],
       [label |-> "app.kubernetes.io/name", kind |-> "App"],
       [label |-> "app",         kind |-> "App"],
       [label |-> "pod",         kind |-> "Pod"] >>

SubjectName(label, name) ==
    CASE label = "job_name" -> normalizeCronJobName(name)
      [] label = "pod"      -> normalizePodName(name)
      [] OTHER              -> name

\* labels is a function on the names of the labels that are not empty.
IsLabels(labels) ==
    /\ "namespace" \in DOMAIN labels => labels["namespace"] \in Symbols \ Rejected
    /\ "alertname" \in DOMAIN labels => labels["alertname"] \in Seq(Symbols)
    /\ \A i \in DOMAIN Subjects :
          Subjects[i].label \in DOMAIN labels =>
              labels[Subjects[i].label] \in Seq(Symbols \ Rejected) \ {<<>>}

DeriveIdentity(labels) ==
    LET ns == IF "namespace" \in DOMAIN labels THEN labels["namespace"] ELSE "cluster"
        alertName == SanitizeLabelValue(
                        IF "alertname" \in DOMAIN labels THEN labels["alertname"] ELSE <<>>)
        Has(i) == Subjects[i].label \in DOMAIN labels
        Identity(kind, name) == [namespace |-> ns, kind |-> kind, name |-> name,
                                 alertName |-> alertName]
    IN  IF \E i \in DOMAIN Subjects : Has(i)
        THEN LET i == CHOOSE j \in DOMAIN Subjects : Has(j) /\ \A k \in 1..j-1 : ~Has(k)
             IN  Identity(Subjects[i].kind,
                          SubjectName(Subjects[i].label, labels[Subjects[i].label]))
        ELSE Identity("Namespace", <<ns>>)

(* How Kubernetes names the Jobs of a CronJob and the pods of a Deployment and  *)
(* of a DaemonSet.  A pod whose hash is all digits looks like a StatefulSet's.  *)

JobOf(owner, name) == \E stamp \in Stamps : name = owner \o <<stamp>>

DeploymentPod(owner, name) ==
    \E template \in SetHashes, hash \in PodHashes \ Ordinals : name = owner \o <<template, hash>>

DaemonSetPod(owner, name) == \E hash \in PodHashes \ Ordinals : name = owner \o <<hash>>

\* The alerts have the same labels but for the Job or the pod of one owner.
SameWorkload(labels, others) ==
    /\ DOMAIN labels = DOMAIN others
    /\ \A x \in DOMAIN labels :
          \/ labels[x] = others[x]
          \/ \E k \in 1..Len(labels[x]) :
                LET owner == SubSeq(labels[x], 1, k)
                    names == {labels[x], others[x]}
                IN  \/ x = "job_name" /\ \A name \in names : JobOf(owner, name)
                    \/ x = "pod" /\ \A name \in names : DeploymentPod(owner, name)
                    \/ x = "pod" /\ \A name \in names : DaemonSetPod(owner, name)

-----------------------------------------------------------------------------
(* workflow_ids.                                                            *)

WorkflowID(id) ==
    <<"triage", "/", id.namespace, "/", id.kind, "/">> \o id.name \o <<"/">> \o id.alertName

WorkflowIDForAttempt(id, n) ==
    IF n <= 1 THEN WorkflowID(id)
    ELSE WorkflowID(id) \o <<AttemptDelimiter>> \o Numeral[n]

\* The last delimiter of wfID is at i, and the number n is spelled after it.
AttemptAt(wfID, i, n) ==
    /\ wfID[i] = AttemptDelimiter
    /\ SubSeq(wfID, i + 1, Len(wfID)) = Numeral[n]

\* <<stem, attempt>>
ParseAttempt(wfID) ==
    IF \E i \in 1..Len(wfID), n \in DOMAIN Numeral : AttemptAt(wfID, i, n)
    THEN LET i == CHOOSE j \in 1..Len(wfID) : \E n \in DOMAIN Numeral : AttemptAt(wfID, j, n)
         IN  << SubSeq(wfID, 1, i - 1), CHOOSE n \in DOMAIN Numeral : AttemptAt(wfID, i, n) >>
    ELSE <<wfID, 1>>
=============================================================================
