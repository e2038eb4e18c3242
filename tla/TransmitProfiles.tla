-------------------------- MODULE TransmitProfiles --------------------------
(* The transmit profiles of the process (lib/tpm/TransmitProfiles.cpp): the *)
(* profiles by name, the one selected, its rule for the device's state, and *)
(* the flag by which the policy managers learn that their timers are old.   *)
(* All of it is static and guarded by profiles_mtx, which is released       *)
(* between the parts of a call: each part is one action. A rule is          *)
(* numbered from 1.                                                         *)
EXTENDS Integers, Sequences, FiniteSets, FiniteSetsExt

CONSTANTS
    Names,                  \* of profiles
    DEFAULT_PROFILE,        \* the one that is selected at first and if there is no other
    Defaults,               \* the built-in profiles: their rules, by name
    Lists,                  \* the profiles an application may load, by name
    MAX_TRANSMIT_PROFILES,
    MAX_TRANSMIT_RULES,
    NetworkCosts,
    PowerSources,
    AnyState,               \* NetworkCost_Any and PowerSource_Any
    Apps,                   \* the application's threads
    Managers,               \* the transmission policy managers of the process
    NoManager,
    MaxCalls                \* bound: calls from outside

DefaultNames == DOMAIN Defaults

\* A rule: for which network cost and power source it is, and its timers.
Rules == [net : NetworkCosts \cup {AnyState}, pow : PowerSources \cup {AnyState}, timers : Seq(Int)]

ASSUME ProfileAssumption ==
    /\ DefaultNames \subseteq Names /\ DEFAULT_PROFILE \in DefaultNames
    /\ \A n \in DefaultNames : Defaults[n] \in Seq(Rules) /\ Defaults[n] # <<>>
    /\ \A l \in Lists : DOMAIN l \subseteq Names /\ \A n \in DOMAIN l : l[n] \in Seq(Rules)
    /\ NoManager \notin Managers
    /\ MaxCalls \in Nat

VARIABLES
    profiles, currProfileName, currRule, currNetCost, currPowState, isTimerUpdated,
    m_timers,               \* of each policy manager
    reading,                \* where each manager is in updateTimersIfNecessary
    call,                   \* what each application thread calls
    calls,                  \* how many calls there were
    lastReader              \* history: the manager that has cleared isTimerUpdated

profileVars == <<profiles, currProfileName, currRule, currNetCost, currPowState, isTimerUpdated>>
callVars == <<call, calls>>
readVars == <<m_timers, reading, lastReader>>

NoProfiles == [n \in {} |-> <<>>]
NoTimers == <<>>
NoCall == [fn |-> "none", name |-> DEFAULT_PROFILE, list |-> NoProfiles]

\* m_timers is not initialised by the constructor.
InitProfiles ==
    /\ profiles = NoProfiles
    /\ currProfileName = DEFAULT_PROFILE
    /\ currRule = 1
    /\ currNetCost = AnyState /\ currPowState = AnyState
    /\ isTimerUpdated = TRUE
    /\ m_timers = [m \in Managers |-> NoTimers]
    /\ reading = [m \in Managers |-> "idle"]
    /\ call = [t \in Apps |-> NoCall]
    /\ calls = 0
    /\ lastReader = NoManager

-----------------------------------------------------------------------------
(* Selecting the rule *)

Matches(rule, net, pow) ==
    /\ rule.net = net \/ net = AnyState \/ rule.net = AnyState
    /\ rule.pow = pow \/ pow = AnyState \/ rule.pow = AnyState

\* The first rule that matches, or the first of all.
RuleFor(rules, net, pow) ==
    LET found == {i \in 1..Len(rules) : Matches(rules[i], net, pow)}
    IN  IF found = {} THEN 1 ELSE Min(found)

\* updateStates and onTimersUpdated; rule is the one there is if no profile is selected.
Select(ps, name, rule, net, pow) ==
    /\ profiles' = ps
    /\ currProfileName' = name
    /\ currNetCost' = net
    /\ currPowState' = pow
    /\ IF name \in DOMAIN ps
       THEN currRule' = RuleFor(ps[name], net, pow) /\ isTimerUpdated' = TRUE
       ELSE currRule' = rule /\ UNCHANGED isTimerUpdated

updateStates(net, pow) == Select(profiles, currProfileName, currRule, net, pow)

\* The custom profiles give way to those of the list.
UpdateProfiles(list) ==
    LET ps == [n \in (DOMAIN profiles \cap DefaultNames) \cup DOMAIN list |->
                  IF n \in DOMAIN list THEN list[n] ELSE profiles[n]]
    IN  Select(ps, IF currProfileName \in DOMAIN ps THEN currProfileName ELSE DEFAULT_PROFILE, 1,
               currNetCost, currPowState)

EnsureDefaultProfiles ==
    IF profiles = NoProfiles THEN UpdateProfiles(Defaults) ELSE UNCHANGED profileVars

-----------------------------------------------------------------------------
(* The application's calls *)

FromOutside == calls < MaxCalls /\ calls' = calls + 1

Calls ==
    [fn : {"setProfile"}, name : Names, list : {NoProfiles}]
        \cup [fn : {"load", "parse"}, name : {DEFAULT_PROFILE}, list : Lists]

\* Both forms of load and setProfile begin with the default profiles.
Begin(t) ==
    /\ call[t] = NoCall
    /\ FromOutside
    /\ EnsureDefaultProfiles
    /\ \E c \in Calls : call' = [call EXCEPT ![t] = c]
    /\ UNCHANGED readVars

\* Mutant: the rule is not looked for in the profile that is set.
setProfile_KeepsRule(t) ==
    /\ call[t].fn = "setProfile"
    /\ currProfileName' = IF call[t].name \in DOMAIN profiles THEN call[t].name ELSE DEFAULT_PROFILE
    /\ isTimerUpdated' = TRUE
    /\ call' = [call EXCEPT ![t] = NoCall]
    /\ UNCHANGED <<profiles, currRule, currNetCost, currPowState, calls, readVars>>

setProfile(t) ==
    /\ call[t].fn = "setProfile"
    /\ Select(profiles, IF call[t].name \in DOMAIN profiles THEN call[t].name ELSE DEFAULT_PROFILE,
              currRule, currNetCost, currPowState)
    /\ call' = [call EXCEPT ![t] = NoCall]
    /\ UNCHANGED <<calls, readVars>>

TooManyProfiles(list) == Cardinality(DOMAIN list) > MAX_TRANSMIT_PROFILES
TooManyRules(list) == \E n \in DOMAIN list : Len(list[n]) > MAX_TRANSMIT_RULES

Incomplete(list) ==
    \E n \in DOMAIN list : list[n] = <<>> \/ \E i \in DOMAIN list[n] : Len(list[n][i].timers) # 3

\* The profiles of a vector are taken if each has rules and each rule has three timers.
load(t) ==
    /\ call[t].fn = "load"
    /\ IF TooManyProfiles(call[t].list) \/ TooManyRules(call[t].list) \/ Incomplete(call[t].list)
       THEN UNCHANGED profileVars
       ELSE UpdateProfiles(call[t].list)
    /\ call' = [call EXCEPT ![t] = NoCall]
    /\ UNCHANGED <<calls, readVars>>

\* Those of a JSON text are not looked at so closely: what is read until an error is taken, be it
\* nothing.
parse(t) ==
    /\ call[t].fn = "parse"
    /\ LET list == call[t].list
       IN  \/ /\ TooManyProfiles(list) \/ TooManyRules(list)
              /\ UNCHANGED profileVars
           \/ /\ ~TooManyProfiles(list)
              /\ \E S \in SUBSET DOMAIN list :
                    LET read == [n \in S |-> list[n]]
                    IN  ~TooManyRules(read) /\ UpdateProfiles(read)
    /\ call' = [call EXCEPT ![t] = NoCall]
    /\ UNCHANGED <<calls, readVars>>

reset(t) ==
    /\ call[t] = NoCall
    /\ FromOutside
    /\ UpdateProfiles(Defaults)
    /\ UNCHANGED <<call, readVars>>

Application == \E t \in Apps : Begin(t) \/ setProfile(t) \/ load(t) \/ parse(t) \/ reset(t)

-----------------------------------------------------------------------------
(* updateTimersIfNecessary of a policy manager *)

\* Mutant: the flag is cleared where it is read.
isTimerUpdateRequired_Clears(m) ==
    /\ reading[m] = "idle"
    /\ isTimerUpdated
    /\ isTimerUpdated' = FALSE
    /\ lastReader' = m
    /\ reading' = [reading EXCEPT ![m] = "ensure"]
    /\ UNCHANGED <<profiles, currProfileName, currRule, currNetCost, currPowState, m_timers, callVars>>

isTimerUpdateRequired(m) ==
    /\ reading[m] = "idle"
    /\ isTimerUpdated
    /\ reading' = [reading EXCEPT ![m] = "ensure"]
    /\ UNCHANGED <<profileVars, callVars, m_timers, lastReader>>

Ensure(m) ==
    /\ reading[m] = "ensure"
    /\ EnsureDefaultProfiles
    /\ reading' = [reading EXCEPT ![m] = "get"]
    /\ UNCHANGED <<callVars, m_timers, lastReader>>

\* Whether there is a rule, and it has timers.
HasTimers ==
    /\ currProfileName \in DOMAIN profiles
    /\ currRule \in DOMAIN profiles[currProfileName]
    /\ profiles[currProfileName][currRule].timers # <<>>

Timers ==
    LET timers == profiles[currProfileName][currRule].timers
    IN  <<1000 * timers[1], 1000 * timers[IF Len(timers) > 2 THEN 3 ELSE 1]>>

\* Without timers nothing is sent, and the flag stays set.
getTimers(m) ==
    /\ reading[m] = "get"
    /\ reading' = [reading EXCEPT ![m] = "idle"]
    /\ IF HasTimers
       THEN /\ m_timers' = [m_timers EXCEPT ![m] = Timers]
            /\ isTimerUpdated' = FALSE
            /\ lastReader' = m
       ELSE /\ m_timers' = [m_timers EXCEPT ![m] = <<-1, -1>>]
            /\ UNCHANGED <<isTimerUpdated, lastReader>>
    /\ UNCHANGED <<profiles, currProfileName, currRule, currNetCost, currPowState, callVars>>

-----------------------------------------------------------------------------
(* Properties *)

ProfilesTypeOK ==
    /\ DOMAIN profiles \subseteq Names
    /\ \A n \in DOMAIN profiles : profiles[n] \in Seq(Rules)
    /\ currProfileName \in Names
    /\ currRule \in Nat \ {0}
    /\ currNetCost \in NetworkCosts \cup {AnyState} /\ currPowState \in PowerSources \cup {AnyState}
    /\ isTimerUpdated \in BOOLEAN
    /\ m_timers \in [Managers -> Seq(Int)]
    /\ reading \in [Managers -> {"idle", "ensure", "get"}]
    /\ call \in [Apps -> Calls \cup {NoCall}]
    /\ calls \in 0..MaxCalls
    /\ lastReader \in Managers \cup {NoManager}

\* Once there are profiles the selected one is among them, and the selected rule is the one for
\* the device's state as it is known: no order of loads, resets, changes of the profile and of the
\* device leaves the number of a rule of another profile behind.
RuleFitsDevice ==
    profiles # NoProfiles =>
        /\ currProfileName \in DOMAIN profiles
        /\ currRule = RuleFor(profiles[currProfileName], currNetCost, currPowState)

\* While isTimerUpdated is clear the manager that has read the timers last has those of the
\* selected rule: no change falls between its look at the flag and its look at the timers. (With
\* several managers only the last one: the others do not learn of the change.)
ReadTimersAreCurrent ==
    ~isTimerUpdated => lastReader # NoManager /\ HasTimers /\ m_timers[lastReader] = Timers
=============================================================================
