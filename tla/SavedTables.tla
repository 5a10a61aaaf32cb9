---------------------------- MODULE SavedTables ----------------------------
(***************************************************************************)
(* Two tables the explorer keeps in memory and saves every minute: where an *)
(* IP address is (app/utils.js) and the difficulty at a height             *)
(* (app/api/coreApi.js).  They differ in what a start makes of the file, in *)
(* what a failed save does, and in when the flag that asks for a save is   *)
(* lowered.                                                                *)
(*                                                                         *)
(* A table is the set of its keys: what is stored under a key never changes *)
(* in a run.  Bounds: each member of Lookups is one geoLocateIpAddresses of *)
(* all Ips, made once; the process is restarted MaxRestarts times.         *)
(***************************************************************************)
EXTENDS Naturals, FiniteSets

CONSTANTS Ips, Heights, Lookups, MaxRestarts

VARIABLES
    process,                    \* "up" or "down"
    restarts,
    ipMemoryCache,              \* the addresses known in memory
    ipMemoryCacheNewItems,      \* there is something to save
    ipSaveFailed,               \* a save failed since the last start
    ipRedis,                    \* the addresses redis knows, or {} without redis
    ipFile, difficultyFile,     \* a file: is it there, is it whole, the keys in it
    difficultyCache,            \* difficultyByBlockheightCache
    difficultyCacheDirty,
    locating                    \* for each lookup and address: where the lookup is

ipVars == <<ipMemoryCache, ipMemoryCacheNewItems, ipSaveFailed, ipFile>>
difficultyVars == <<difficultyCache, difficultyCacheDirty, difficultyFile>>
vars == <<process, restarts, ipVars, difficultyVars, ipRedis, locating>>

NoFile == [state |-> "absent", keys |-> {}]
Whole(keys) == [state |-> "whole", keys |-> keys]
Half == [state |-> "half", keys |-> {}]

Init ==
    /\ process = "up" /\ restarts = 0
    /\ ipMemoryCache = {} /\ ipMemoryCacheNewItems = FALSE /\ ipSaveFailed = FALSE
    /\ ipRedis = {}
    /\ ipFile = NoFile /\ difficultyFile = NoFile
    /\ difficultyCache = {} /\ difficultyCacheDirty = FALSE
    /\ locating = [l \in Lookups |-> [ip \in Ips |-> "idle"]]

Up == process = "up"

-----------------------------------------------------------------------------
(* Addresses *)

\* geoLocateIpAddresses asks for all addresses at once; ipCache.get looks into
\* the table in the same turn.
GeoLocate(l) ==
    /\ Up
    /\ \A ip \in Ips : locating[l][ip] = "idle"
    /\ locating' = [locating EXCEPT ![l] = [ip \in Ips |-> IF ip \in ipMemoryCache THEN "located" ELSE "asksRedis"]]
    /\ UNCHANGED <<process, restarts, ipVars, difficultyVars, ipRedis>>

\* Redis has it; or it does not, there is no redis, or it fails: redisCache
\* gives null for all of these.
RedisAnswers(l, ip) ==
    /\ Up
    /\ locating[l][ip] = "asksRedis"
    /\ \E result \in {"asksService"} \cup IF ip \in ipRedis THEN {"located"} ELSE {} :
            locating' = [locating EXCEPT ![l][ip] = result]
    /\ UNCHANGED <<process, restarts, ipVars, difficultyVars, ipRedis>>

\* ipCache.set; redis may not be there or fail.
Set(ip) ==
    /\ ipMemoryCache' = ipMemoryCache \cup {ip}
    /\ ipMemoryCacheNewItems' = TRUE
    /\ ipRedis' \in {ipRedis, ipRedis \cup {ip}}

ServiceAnswers(l, ip) ==
    /\ Up
    /\ locating[l][ip] = "asksService"
    /\ locating' = [locating EXCEPT ![l][ip] = "located"]
    /\ Set(ip)
    /\ UNCHANGED <<process, restarts, ipSaveFailed, ipFile, difficultyVars>>

\* The failure is logged and the address left out.
ServiceFails(l, ip) ==
    /\ Up
    /\ locating[l][ip] = "asksService"
    /\ locating' = [locating EXCEPT ![l][ip] = "leftOut"]
    /\ UNCHANGED <<process, restarts, ipVars, difficultyVars, ipRedis>>

\* Every minute.  A failed write, which may leave half a file, is logged; the
\* flag is lowered all the same.
SaveIps ==
    /\ Up /\ ipMemoryCacheNewItems
    /\ ipMemoryCacheNewItems' = FALSE
    /\ \/ ipFile' = Whole(ipMemoryCache) /\ UNCHANGED ipSaveFailed
       \/ ipFile' \in {ipFile, Half} /\ ipSaveFailed' = TRUE
    /\ UNCHANGED <<process, restarts, ipMemoryCache, ipRedis, difficultyVars, locating>>

-----------------------------------------------------------------------------
(* Difficulties *)

\* Mutant: the flag is raised only for heights the file has not.
AddDifficultiesIfNotSaved(heights) ==
    /\ Up /\ heights # {}
    /\ difficultyCache' = difficultyCache \cup heights
    /\ difficultyCacheDirty' = (difficultyCacheDirty \/ difficultyFile.state = "absent")
    /\ UNCHANGED <<process, restarts, ipVars, ipRedis, difficultyFile, locating>>

\* The headers getDifficultyByBlockHeights asked for came in (they are asked for
\* together, and an error of one adds nothing).
AddDifficulties(heights) ==
    /\ Up /\ heights # {}
    /\ difficultyCache' = difficultyCache \cup heights
    /\ difficultyCacheDirty' = TRUE
    /\ UNCHANGED <<process, restarts, ipVars, ipRedis, difficultyFile, locating>>

\* Every minute.  The flag stays up, so the file is written every minute from
\* the first new height on; a failed write throws in a timer, which ends the process.
WriteDifficulties ==
    /\ Up /\ difficultyCacheDirty
    /\ \/ difficultyFile' = Whole(difficultyCache) /\ UNCHANGED process
       \/ difficultyFile' \in {difficultyFile, Half} /\ process' = "down"
    /\ UNCHANGED <<restarts, ipVars, ipRedis, difficultyCache, difficultyCacheDirty, locating>>

-----------------------------------------------------------------------------
(* Stops and starts *)

\* The process is ended, perhaps in the middle of a save.
Stop ==
    /\ Up
    /\ process' = "down"
    /\ ipFile' \in {ipFile} \cup IF ipMemoryCacheNewItems THEN {Half} ELSE {}
    /\ difficultyFile' \in {difficultyFile} \cup IF difficultyCacheDirty THEN {Half} ELSE {}
    /\ UNCHANGED <<restarts, ipMemoryCache, ipMemoryCacheNewItems, ipSaveFailed, difficultyCache, difficultyCacheDirty,
                   ipRedis, locating>>

\* The IP file is assigned to a const, which throws even when the file is whole,
\* and the catch block removes it.  The difficulty file is loaded, or removed if
\* it is not JSON.
Start ==
    /\ process = "down" /\ restarts < MaxRestarts
    /\ process' = "up" /\ restarts' = restarts + 1
    /\ ipMemoryCache' = {} /\ ipMemoryCacheNewItems' = FALSE /\ ipSaveFailed' = FALSE
    /\ ipFile' = NoFile
    /\ difficultyCache' = difficultyFile.keys /\ difficultyCacheDirty' = FALSE
    /\ difficultyFile' = IF difficultyFile.state = "half" THEN NoFile ELSE difficultyFile
    /\ locating' = [l \in Lookups |-> [ip \in Ips |-> IF locating[l][ip] = "idle" THEN "idle" ELSE "cutOff"]]
    /\ UNCHANGED ipRedis

AddressStep == \E l \in Lookups, ip \in Ips : RedisAnswers(l, ip) \/ ServiceAnswers(l, ip) \/ ServiceFails(l, ip)

Next ==
    \/ \E l \in Lookups : GeoLocate(l)
    \/ AddressStep \/ SaveIps
    \/ \E heights \in SUBSET Heights : AddDifficulties(heights)
    \/ WriteDifficulties
    \/ Stop \/ Start

Spec == Init /\ [][Next]_vars

-----------------------------------------------------------------------------
\* The tables' state keeps its shape.
Files == [state : {"absent", "half"}, keys : {{}}]
TypeOK ==
    /\ process \in {"up", "down"} /\ restarts \in 0 .. MaxRestarts
    /\ ipMemoryCache \subseteq Ips /\ ipRedis \subseteq Ips /\ difficultyCache \subseteq Heights
    /\ {ipMemoryCacheNewItems, ipSaveFailed, difficultyCacheDirty} \subseteq BOOLEAN
    /\ ipFile \in Files \cup [state : {"whole"}, keys : SUBSET Ips]
    /\ difficultyFile \in Files \cup [state : {"whole"}, keys : SUBSET Heights]
    /\ locating \in [Lookups -> [Ips -> {"idle", "asksRedis", "asksService", "located", "leftOut", "cutOff"}]]

\* A running explorer that does not intend to save a table has it in the file,
\* across restarts and half-written files; the IP table, whose flag is lowered
\* before the outcome is known, only as long as no save failed.
TablesAreSaved ==
    /\ Up /\ ~ipMemoryCacheNewItems /\ ~ipSaveFailed => ipMemoryCache = ipFile.keys
    /\ Up /\ ~difficultyCacheDirty => difficultyCache = difficultyFile.keys
=============================================================================
