-------------------------------- MODULE Toolchain --------------------------------
(***************************************************************************)
(* The parts of the toolchain that work on their own: the builder of       *)
(* torc-core, the engine of torc-verify as a library, torc ffi bridge, and *)
(* the commands that resolve dependencies.  They share no state, so a      *)
(* behaviour is one of one part, chosen at the start.                      *)
(***************************************************************************)
EXTENDS Builder, Engine, ForeignInterface, Resolver

VARIABLE tool  \* the part

toolchainVars == <<tool, builderVars, engineVars, foreignVars, dependencyVars>>

ToolchainInit ==
    /\ tool \in {"builder", "engine", "bridge", "dependencies"}
    /\ BuilderInit /\ ForeignInit
    /\ EngineInit /\ (tool = "engine" \/ setting = "development")
    /\ DependencyInit /\ (tool = "dependencies" \/ deps = EmptyMap)

\* A step of one part leaves the others alone.
BuilderWorks == /\ tool = "builder" /\ BuilderNext
                /\ UNCHANGED <<tool, engineVars, foreignVars, dependencyVars>>
EngineWorks  == /\ tool = "engine" /\ EngineNext
                /\ UNCHANGED <<tool, builderVars, foreignVars, dependencyVars>>
BridgeWorks  == /\ tool = "bridge" /\ ForeignNext
                /\ UNCHANGED <<tool, builderVars, engineVars, dependencyVars>>
ResolverWorks == /\ tool = "dependencies" /\ DependencyNext
                 /\ UNCHANGED <<tool, builderVars, engineVars, foreignVars>>

ToolchainNext == BuilderWorks \/ EngineWorks \/ BridgeWorks \/ ResolverWorks
ToolchainSpec == ToolchainInit /\ [][ToolchainNext]_toolchainVars
=============================================================================
