---------------------------- MODULE MCComponents ----------------------------
(***************************************************************************)
(* Instances for TLC of the components that do not share their state: one  *)
(* behaviour picks one of them and runs it alone, the others stay as they  *)
(* begin.  One run thus checks the safety of them all.                     *)
(***************************************************************************)
EXTENDS AccessIntake, QQManager, PackageStore, Bookings, Timetable, ProcessHost,
        PackageInstall, ProjectSync, DependencyResolve, AgentStream, RuntimeHost, Weather

CONSTANT Focuses    \* the components that are run

VARIABLE focus

Everything ==
    <<intakeVars, qqVars, packageVars, bookingVars, timetableVars, processVars,
      installVars, syncVars, resolveVars, agentVars, hostVars, weatherVars>>

\* An initial state is chosen where the component has several and is not run.
OneOf(S) == CHOOSE x \in S : TRUE

ComponentsInit ==
    /\ focus \in Focuses
    /\ IntakeInit /\ QQInit /\ PackageInit /\ TimetableInit /\ ProcessInit
    /\ AgentInit /\ HostInit /\ WeatherInit
    /\ BookingInit /\ (focus # "bookings" => bookingKind = OneOf(BookingKinds))
    /\ InstallInit
    /\ SyncInit /\ (focus # "sync" => lock = 0)
    /\ ResolveInit
    /\ focus # "resolve" => released = OneOf(Published) /\ locked = OneOf(Locks)

Others(component, variables) == IF focus = component THEN TRUE ELSE UNCHANGED variables
Alone(component) ==
    /\ focus = component /\ UNCHANGED focus
    /\ Others("intake", intakeVars) /\ Others("qq", qqVars)
    /\ Others("store", packageVars) /\ Others("bookings", bookingVars)
    /\ Others("timetable", timetableVars) /\ Others("process", processVars)
    /\ Others("install", installVars) /\ Others("sync", syncVars)
    /\ Others("resolve", resolveVars) /\ Others("agent", agentVars)
    /\ Others("host", hostVars) /\ Others("weather", weatherVars)

ComponentsNext ==
    \/ Alone("intake") /\ IntakeNext
    \/ Alone("qq") /\ QQNext
    \/ Alone("store") /\ PackageNext
    \/ Alone("bookings") /\ BookingNext
    \/ Alone("timetable") /\ TimetableNext
    \/ Alone("process") /\ ProcessNext
    \/ Alone("install") /\ InstallNext
    \/ Alone("sync") /\ SyncNext
    \/ Alone("resolve") /\ ResolveNext
    \/ Alone("agent") /\ AgentNext
    \/ Alone("host") /\ HostNext
    \/ Alone("weather") /\ WeatherNext

ComponentsSpec == ComponentsInit /\ [][ComponentsNext]_<<Everything, focus>>

-----------------------------------------------------------------------------
(* The instances. *)

Delivered(via, from, space, key, text) ==
    [via |-> via, from |-> from, space |-> space, key |-> key, text |-> text]
MCDeliveries == {Delivered("qq", "p1", "g", "k1", "a"),
                 Delivered("api", "p2", "private", "k1", "a")}

MCSnapshotDocs == [r \in {"r1", "r2"} |-> IF r = "r1" THEN {1, 2, 3} ELSE {2}]

MCPackageNeeds == [p \in {"app", "lib"} |->
    IF p = "app" THEN << [q \in {"lib"} |-> {1, 2}], [q \in {"lib"} |-> {2}] >>
    ELSE << <<>>, [q \in {"lib"} |-> {1}] >>]

All == {1, 2, 3}
MCRequired ==
    [p \in {"a", "b", "c"} |->
        CASE p = "a" -> << <<>>, <<>>, [q \in {"c"} |-> All] >>
          [] p = "b" -> << [q \in {"a"} |-> {1, 2}], [q \in {"a"} |-> {1, 2}],
                           [q \in {"a"} |-> All] >>
          [] OTHER -> << <<>>, [q \in {"b"} |-> {1, 2}], <<>> >>]
MCProjectNeeds == [p \in {"a", "b"} |-> All]
MCPublished ==
    {[p \in {"a", "b", "c"} |-> CASE p = "a" -> x [] p = "b" -> y [] OTHER -> z] :
        x \in {{1}, {1, 2}, {1, 3}, All}, y \in {{1}, {1, 2}, {1, 3}, All}, z \in {{1}, {2}}}
MCLocks == {<<>>, [p \in {"a", "b"} |-> 1], [p \in {"a"} |-> 2]}

MCTtl == [k \in {"geocode", "forecast", "fetch", "aqi", "alerts"} |->
             CASE k = "geocode" -> 3 [] k = "alerts" -> 1 [] OTHER -> 2]
Asked(capability, provider, named) ==
    [app |-> "app", capability |-> capability, source |-> provider, place |-> "here",
     named |-> named]
MCWeatherRequests == {Asked("alerts", "auto", FALSE), Asked("aqi", "xiaomi", TRUE)}
=============================================================================
