------------------------------ MODULE ModelKeys ------------------------------
(***************************************************************************)
(* The keys and configurations of the models, as the administrator changes *)
(* them and as the app uses them.  A configuration is drafted, validated   *)
(* and activated against the version of the profile the draft began with;  *)
(* a key is set, replaced or deleted through a link that names the version *)
(* of the credential it was made for.  A committed change is announced by  *)
(* a row of the outbox, relayed to Redis as one marker per topic, and read *)
(* from there by the app, which reads the profile again and drops from its *)
(* cache the requests it had prepared with the key of the profile.         *)
(***************************************************************************)
EXTENDS Naturals, FiniteSets, Sequences

CONSTANTS
    Profiles,
    Admins,
    ModelRuns,
    MaxKeyChanges    \* bound: committed changes of profiles and credentials

ASSUME KeysConstants == MaxKeyChanges \in Nat

VARIABLES
    profile,     \* profile and credential rows
    liveKeys,    \* versions of the credential that are not destroyed
    draft,       \* the configuration session of an administrator
    link,        \* the key link of an administrator
    mbox,        \* outbox rows of the two model topics, in order of their ids
    marker,      \* the greatest row relayed for a topic that Redis still holds
    seen,        \* the last marker of a topic the app handled
    known,       \* the rows the app last read
    run,         \* model runs, each with the key it was started with
    reading,     \* runs whose request is being prepared
    cached,   \* runs whose request, with the key, is in the cache
    raced        \* ghost: runs whose request was being prepared when their key was deleted

keysVars == <<profile, liveKeys, draft, link, mbox, marker, seen, known, run, reading,
              cached, raced>>
adminVars == <<profile, liveKeys, draft, link, mbox>>
relayVars == <<marker, seen, known>>
runVars == <<run, reading, cached, raced>>

Topic == {"model.credential.changed", "model.config.activated"}
Version == 0..(2 * MaxKeyChanges + 1)

\* key = 0: the credential is deleted, or was never set
ProfileRow == [version : Version, state : {"disabled", "active"}, config : Version,
               key : Version, latest : Version, keyVersion : Version]
NewProfile == [version |-> 1, state |-> "disabled", config |-> 0,
               key |-> 0, latest |-> 0, keyVersion |-> 1]
UnknownProfile == [NewProfile EXCEPT !.version = 0]

NoDraft == [profile |-> "none", stage |-> "none", expects |-> 0]
DraftRow == [profile : Profiles, stage : {"editing", "validated"}, expects : Version]
NoLink == [profile |-> "none", expects |-> 0]
LinkRow == [profile : Profiles, expects : Version]
NoRun == [profile |-> "none", key |-> 0]
ModelRunRow == [profile : Profiles, key : Version]

KeysTypeOK ==
    /\ profile \in [Profiles -> ProfileRow]
    /\ liveKeys \in [Profiles -> SUBSET Version]
    /\ draft \in [Admins -> DraftRow \cup {NoDraft}]
    /\ link \in [Admins -> LinkRow \cup {NoLink}]
    /\ mbox \in Seq([topic : Topic, profile : Profiles, published : BOOLEAN])
    /\ marker \in [Topic -> 0..Len(mbox)]
    /\ seen \in [Topic -> 0..Len(mbox)]
    /\ known \in [Profiles -> ProfileRow \cup {UnknownProfile}]
    /\ run \in [ModelRuns -> ModelRunRow \cup {NoRun}]
    /\ reading \subseteq ModelRuns /\ cached \subseteq ModelRuns /\ raced \subseteq ModelRuns

KeysInit ==
    /\ profile = [p \in Profiles |-> NewProfile]
    /\ liveKeys = [p \in Profiles |-> {}]
    /\ draft = [a \in Admins |-> NoDraft]
    /\ link = [a \in Admins |-> NoLink]
    /\ mbox = <<>>
    /\ marker = [t \in Topic |-> 0] /\ seen = [t \in Topic |-> 0]
    /\ known = [p \in Profiles |-> UnknownProfile]
    /\ run = [r \in ModelRuns |-> NoRun]
    /\ reading = {} /\ cached = {} /\ raced = {}

Announce(topic, p) ==
    /\ Len(mbox) < MaxKeyChanges
    /\ mbox' = Append(mbox, [topic |-> topic, profile |-> p, published |-> FALSE])

-----------------------------------------------------------------------------
(* Configurations *)

\* a new session of the administrator replaces the one there was
StartControlSession(a, p) ==
    /\ draft' = [draft EXCEPT ![a] = [profile |-> p, stage |-> "editing",
                                      expects |-> profile[p].version]]
    /\ UNCHANGED <<profile, liveKeys, link, mbox, relayVars, runVars>>

\* validation asks nothing about the key
ValidateDraft(a) ==
    /\ draft[a].stage = "editing"
    /\ draft' = [draft EXCEPT ![a].stage = "validated"]
    /\ UNCHANGED <<profile, liveKeys, link, mbox, relayVars, runVars>>

ActivateDraft(a, state) ==
    /\ draft[a].stage = "validated"
    /\ LET p == draft[a].profile
       IN /\ profile[p].version = draft[a].expects
          /\ profile[p].key # 0
          /\ profile' = [profile EXCEPT ![p].state = state, ![p].config = @ + 1,
                                        ![p].version = @ + 1]
          /\ Announce("model.config.activated", p)
    /\ draft' = [draft EXCEPT ![a] = NoDraft]
    /\ UNCHANGED <<liveKeys, link, relayVars, runVars>>

\* cancelled, or expired
DropDraft(a) ==
    /\ draft[a] # NoDraft
    /\ draft' = [draft EXCEPT ![a] = NoDraft]
    /\ UNCHANGED <<profile, liveKeys, link, mbox, relayVars, runVars>>

-----------------------------------------------------------------------------
(* Keys *)

\* the action the link is for is decided when it is used, which makes no difference
CreateKeyLaunch(a, p) ==
    /\ link' = [link EXCEPT ![a] = [profile |-> p, expects |-> profile[p].keyVersion]]
    /\ UNCHANGED <<profile, liveKeys, draft, mbox, relayVars, runVars>>

\* a link is good once, for the version of the credential it was made for
ClaimKeyLaunch(a) ==
    /\ link[a] # NoLink
    /\ profile[link[a].profile].keyVersion = link[a].expects
    /\ link' = [link EXCEPT ![a] = NoLink]

\* a first key, or another one beside those that running requests still use
SetKey(a) ==
    LET p == link[a].profile
        new == profile[p].latest + 1
    IN /\ ClaimKeyLaunch(a)
       /\ profile' = [profile EXCEPT ![p].key = new, ![p].latest = new, ![p].keyVersion = @ + 1]
       /\ liveKeys' = [liveKeys EXCEPT ![p] = @ \cup {new}]
       /\ Announce("model.credential.changed", p)
       /\ UNCHANGED <<draft, relayVars, runVars>>

\* mutant: the profile is left as it is
KeyDeleted(row) == [row EXCEPT !.key = 0, !.keyVersion = @ + 1]

\* an active profile is disabled
WithoutKey(row) ==
    [row EXCEPT !.key = 0, !.keyVersion = @ + 1, !.state = "disabled",
                !.version = IF row.state = "active" THEN @ + 1 ELSE @]

\* every version of the credential is destroyed, those of running requests included
DeleteKey(a) ==
    LET p == link[a].profile
    IN /\ ClaimKeyLaunch(a) /\ profile[p].key # 0
       /\ profile' = [profile EXCEPT ![p] = WithoutKey(@)]
       /\ liveKeys' = [liveKeys EXCEPT ![p] = {}]
       /\ Announce("model.credential.changed", p)
       /\ raced' = raced \cup {r \in reading : run[r].profile = p}
       /\ UNCHANGED <<draft, relayVars, run, reading, cached>>

-----------------------------------------------------------------------------
(* Markers *)

\* rows are relayed in any order: a row that failed waits, and a former leader may be late; the
\* marker keeps the greatest, so that relaying a row again changes nothing
PublishMarker(i) ==
    /\ ~mbox[i].published
    /\ marker' = [marker EXCEPT ![mbox[i].topic] = IF @ < i THEN i ELSE @]
    /\ mbox' = [mbox EXCEPT ![i].published = TRUE]
    /\ UNCHANGED <<profile, liveKeys, draft, link, seen, known, runVars>>

LoseMarkers ==
    /\ marker' = [t \in Topic |-> 0]
    /\ marker # marker'
    /\ UNCHANGED <<adminVars, seen, known, runVars>>

\* mutant: a change that leaves the configuration alone is overlooked
ChangedConfig(p) == known[p].config # profile[p].config

Changed(p) == known[p] # profile[p]

\* what the app does for the profiles it has read again
DropChanged(ps) ==
    cached' = {r \in cached : ~(run[r].profile \in ps /\ Changed(run[r].profile))}

\* the marker only names a profile; the rows are what counts
ObserveMarker(topic) ==
    LET row == mbox[marker[topic]]
    IN /\ marker[topic] > seen[topic]
       /\ DropChanged({row.profile})
       /\ known' = [known EXCEPT ![row.profile] = profile[row.profile]]
       /\ seen' = [seen EXCEPT ![topic] = marker[topic]]
       /\ UNCHANGED <<adminVars, marker, run, reading, raced>>

\* every thirty seconds, whatever Redis said
Compensate ==
    /\ DropChanged(Profiles)
    /\ known' = profile
    /\ UNCHANGED <<adminVars, marker, seen, run, reading, raced>>

-----------------------------------------------------------------------------
(* Runs *)

StartModelRun(r, p) ==
    /\ run[r] = NoRun
    /\ profile[p].state = "active" /\ profile[p].key # 0
    /\ run' = [run EXCEPT ![r] = [profile |-> p, key |-> profile[p].key]]
    /\ UNCHANGED <<adminVars, relayVars, reading, cached, raced>>

KeyAlive(r) == run[r].key \in liveKeys[run[r].profile]

\* a request is prepared in a transaction, and is put into the cache after it
ReadRequest(r) ==
    /\ run[r] # NoRun /\ r \notin reading \cup cached
    /\ KeyAlive(r)
    /\ reading' = reading \cup {r}
    /\ UNCHANGED <<adminVars, relayVars, run, cached, raced>>

KeepRequest(r) ==
    /\ r \in reading
    /\ reading' = reading \ {r}
    /\ cached' = cached \cup {r}
    /\ UNCHANGED <<adminVars, relayVars, run, raced>>

AppRestarts ==
    /\ reading' = {} /\ cached' = {} /\ raced' = {}
    /\ seen' = [t \in Topic |-> 0]
    /\ known' = [p \in Profiles |-> UnknownProfile]
    /\ UNCHANGED <<adminVars, marker, run>>

KeysNext ==
    \/ \E a \in Admins :
        \/ \E p \in Profiles : StartControlSession(a, p)
        \/ ValidateDraft(a) \/ DropDraft(a)
        \/ \E s \in {"active", "disabled"} : ActivateDraft(a, s)
        \/ \E p \in Profiles : CreateKeyLaunch(a, p)
        \/ SetKey(a) \/ DeleteKey(a)
    \/ \E i \in DOMAIN mbox : PublishMarker(i)
    \/ \E t \in Topic : ObserveMarker(t)
    \/ LoseMarkers \/ Compensate \/ AppRestarts
    \/ \E r \in ModelRuns :
        \/ \E p \in Profiles : StartModelRun(r, p)
        \/ ReadRequest(r) \/ KeepRequest(r)

KeysFairness ==
    /\ WF_keysVars(Compensate)
    /\ WF_keysVars(\E r \in ModelRuns : KeepRequest(r))

KeysSpec == KeysInit /\ [][KeysNext]_keysVars /\ KeysFairness

-----------------------------------------------------------------------------
(* Properties *)

\* A profile a run can be started with has a key, however activations, key changes and deletions
\* of several administrators cross.
ActiveProfileHasKey ==
    \A p \in Profiles : profile[p].state = "active" =>
        profile[p].key # 0 /\ profile[p].key \in liveKeys[p]

\* A deleted key leaves the cache of the app, whichever markers are lost, late or merged, except
\* where its request was being prepared at the moment of the deletion.
DeletedKeyForgotten == <>[](\A r \in cached : KeyAlive(r) \/ r \in raced)
=============================================================================
