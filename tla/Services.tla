------------------------------ MODULE Services ------------------------------
(***************************************************************************)
(* The Go packages, and the migration scripts, that share no state with    *)
(* each other, in one specification.  A behaviour is one of the package    *)
(* chosen at its start: since no variable belongs to two of them, the      *)
(* behaviours of several are interleavings of these.                       *)
(***************************************************************************)
EXTENDS Shuffle, BlockSearch, Coverage, Transactor, Spawner, Flipside,
        MetadataServer, Migrations, Library

CONSTANT ActiveServices     \* which of them behaviours are explored of

VARIABLE active

servicesVars == <<active, shuffleVars, searchVars, covVars, txVars, spawnVars,
                  flipVars, erc721Vars, migrationVars, libCall>>

ServicesInit ==
    /\ active \in ActiveServices
    /\ ShuffleInit /\ (active # "shuffle" => size = 0)
    /\ SearchInit /\ CovInit /\ TransactorInit /\ SpawnerInit /\ FlipInit
    /\ ServerInit721 /\ MigrationsInit /\ LibInit

ShuffleRuns ==
    /\ active = "shuffle" /\ ShuffleNext
    /\ UNCHANGED <<active, searchVars, covVars, txVars, spawnVars, flipVars, erc721Vars, migrationVars, libCall>>
SearchRuns ==
    /\ active = "LastBlockBy" /\ SearchNext
    /\ UNCHANGED <<active, shuffleVars, covVars, txVars, spawnVars, flipVars, erc721Vars, migrationVars, libCall>>
CoverageRuns ==
    /\ active = "solcover" /\ CovNext
    /\ UNCHANGED <<active, shuffleVars, searchVars, txVars, spawnVars, flipVars, erc721Vars, migrationVars, libCall>>
TransactorRuns ==
    /\ active = "dbtx" /\ TransactorNext
    /\ UNCHANGED <<active, shuffleVars, searchVars, covVars, spawnVars, flipVars, erc721Vars, migrationVars, libCall>>
SpawnerRuns ==
    /\ active = "spawner" /\ SpawnerNext
    /\ UNCHANGED <<active, shuffleVars, searchVars, covVars, txVars, flipVars, erc721Vars, migrationVars, libCall>>
FlipsideRuns ==
    /\ active = "flipside" /\ FlipNext
    /\ UNCHANGED <<active, shuffleVars, searchVars, covVars, txVars, spawnVars, erc721Vars, migrationVars, libCall>>
ERC721Runs ==
    /\ active = "erc721" /\ ERC721Next
    /\ UNCHANGED <<active, shuffleVars, searchVars, covVars, txVars, spawnVars, flipVars, migrationVars, libCall>>
MigrationsRun ==
    /\ active = "uups" /\ MigrationsNext
    /\ UNCHANGED <<active, shuffleVars, searchVars, covVars, txVars, spawnVars, flipVars, erc721Vars, libCall>>
LibraryRuns ==
    /\ active = "library" /\ LibNext
    /\ UNCHANGED <<active, shuffleVars, searchVars, covVars, txVars, spawnVars, flipVars, erc721Vars, migrationVars>>

ServicesNext ==
    \/ ShuffleRuns \/ SearchRuns \/ CoverageRuns \/ TransactorRuns
    \/ SpawnerRuns \/ FlipsideRuns \/ ERC721Runs \/ MigrationsRun \/ LibraryRuns

\* The goroutine of FetchQueryResults() goes on: every request is answered or
\* fails, timers fire, and a request fails once its Context is done.
FlipsideGoesOn ==
    /\ active = "flipside"
    /\ \/ GetQueryRun \/ BackoffEnds \/ GetQueryRunResults \/ FetchReturns
       \/ flipCtxDone /\ RequestFails
    /\ UNCHANGED <<active, shuffleVars, searchVars, covVars, txVars, spawnVars, erc721Vars, migrationVars, libCall>>

ServicesSpec ==
    ServicesInit /\ [][ServicesNext]_servicesVars /\ WF_servicesVars(FlipsideGoesOn)

=============================================================================
