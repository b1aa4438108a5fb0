---------------------------- MODULE ForkContext ----------------------------
(***************************************************************************)
(* The fork context of src/types/fork_context.rs: the forks of the chain   *)
(* configuration, the digest that names each, and the node's current fork. *)
(*                                                                         *)
(* A configuration is a record: fork_epoch gives each phase its epoch      *)
(* (FAR_FUTURE_EPOCH for a phase that is not scheduled), blob_schedule the *)
(* epochs at which only the blob parameters change.  A phase is its number.*)
(* A digest is what it is computed from: the phase, and from Fulu on the   *)
(* blob parameters in force.                                               *)
(***************************************************************************)
EXTENDS Integers, FiniteSetsExt

CONSTANT FAR_FUTURE_EPOCH   \* later than every epoch of the model

Phase0 == 0
Altair == 1
Bellatrix == 2
Capella == 3
Deneb == 4
Electra == 5
Fulu == 6
Gloas == 7
Phases == Phase0 .. Gloas

NoFork == [none |-> TRUE]

is_phase_enabled(config, phase) == config.fork_epoch[phase] # FAR_FUTURE_EPOCH

fork_exists(config, phase) == config.fork_epoch[phase] # FAR_FUTURE_EPOCH

phase_at_epoch(config, epoch) ==
  Max({p \in Phases : config.fork_epoch[p] <= epoch})

\* The blob parameters are mixed into the digest from Fulu on.
compute_fork_digest(config, epoch) ==
  LET phase == phase_at_epoch(config, epoch)
  IN  <<phase,
        IF phase >= Fulu
        THEN Max({e \in config.blob_schedule : e <= epoch} \cup {0})
        ELSE 0>>

HardFork(config, epoch) ==
  [fork_name |-> phase_at_epoch(config, epoch),
   fork_epoch |-> epoch,
   fork_digest |-> compute_fork_digest(config, epoch)]

\* One entry per epoch: phases enabled at the same epoch share the entry of
\* the last of them.
all_fork_epochs(config) ==
  {config.fork_epoch[p] : p \in {q \in Phases : is_phase_enabled(config, q)}}
    \cup config.blob_schedule

epoch_to_forks(config) ==
  [e \in all_fork_epochs(config) |-> HardFork(config, e)]

\* The last entry of the map that is not after the epoch.
ForkAt(config, epoch) ==
  epoch_to_forks(config)[Max({e \in all_fork_epochs(config) : e <= epoch})]

context_bytes(config, epoch) == ForkAt(config, epoch).fork_digest

\* The phase of the first entry with these bytes, NoFork when there is none.
get_fork_from_context_bytes(config, context) ==
  LET found == {e \in all_fork_epochs(config) :
                  epoch_to_forks(config)[e].fork_digest = context}
  IN  IF found = {} THEN NoFork
      ELSE [phase |-> epoch_to_forks(config)[Min(found)].fork_name]

\* The entry after the current fork's, NoFork after the last one.
next_fork(config, current) ==
  LET later == {e \in all_fork_epochs(config) : e > current.fork_epoch}
  IN  IF later = {} THEN NoFork ELSE epoch_to_forks(config)[Min(later)]

\* The entry after the current fork's becomes the current one.  After the
\* last one the phase stays, at an epoch that never comes.
update_current_fork(config, current) ==
  LET next == next_fork(config, current)
  IN  IF next = NoFork
      THEN [fork_name |-> current.fork_name, fork_epoch |-> FAR_FUTURE_EPOCH,
            fork_digest |-> <<-1, -1>>]
      ELSE next
=============================================================================
