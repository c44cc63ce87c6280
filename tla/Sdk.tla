-------------------------------- MODULE Sdk --------------------------------
(***************************************************************************)
(* MappersClient.initializeJob of lib/sdk, and what the program it is sent *)
(* to makes of the instruction: the client encodes its arguments after its *)
(* own IDL (idl.ts), the program reads the arguments it was compiled with. *)
(* That there is a client at all is assumed: see README, on the format of  *)
(* the IDL.                                                                *)
(***************************************************************************)
EXTENDS Sequences

CONSTANTS
    LongIds,        \* ids of more than 32 UTF-16 units
    WideIds,        \* ids of more than 32 bytes: no address can be derived
    ProgramArgs     \* the arguments of the deployed initialize_job

(* initializeJob(jobId, amount)                                            *)
IdlArgs == <<"job_id", "amount">>

(* initialize_job(job_id, amount, duration_seconds)                        *)
SourceArgs == <<"job_id", "amount", "duration_seconds">>

(* It throws before anything is sent.                                      *)
ThrowsLocally(j) == j \in LongIds \cup WideIds

(* The program decodes the arguments only if they are the ones it expects. *)
ProgramDecodes == IdlArgs = ProgramArgs

=============================================================================
