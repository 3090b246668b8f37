--------------------------- MODULE RunModeGuard ---------------------------
(***************************************************************************)
(* check_action_allowed of ctf_runner/run_mode.py: which action a run mode *)
(* permits on which kind of target, given the operator's flags and the     *)
(* platform profile's policy.  Flags and policy are the sets of the names  *)
(* that are true in the mappings the callers pass.  The function returns a *)
(* reason beside the verdict; the callers act on the verdict only.         *)
(***************************************************************************)
RunModes    == {"setup", "rehearsal", "competition"}
TargetKinds == {"fake", "local", "real_platform"}

LocalTestActions == {"fake_local_e2e", "mock_solver"}
ReadOnlyActions  == {"real_platform_profile", "real_platform_discover"}
TransferActions  == {"real_platform_download", "real_platform_ingest"}
\* what needs no permission when the target is not a real platform
TargetActions    == TransferActions \cup
                    {"real_platform_discover", "real_challenge_solve", "live_submit"}
Actions == LocalTestActions \cup ReadOnlyActions \cup TransferActions \cup
           {"real_challenge_solve", "live_submit", "instance_start",
            "browser_login", "public_tunnel"}

Confirmed(flags) == "confirm_competition" \in flags
ArmedAndConfirmed(flags) == Confirmed(flags) /\ "contest_armed" \in flags

SolveAllowed(mode, flags) ==
  \/ mode = "rehearsal" /\ "allow_real_solve_dry_run" \in flags
  \/ mode = "competition" /\ ArmedAndConfirmed(flags)

LiveSubmitAllowed(mode, flags, policy) ==
  /\ mode = "competition"
  /\ ArmedAndConfirmed(flags)
  /\ "allow_live_submit" \in flags
  /\ {"confirm_submit", "confirm"} \cap flags # {}
  /\ "allow_submission" \in policy

InstanceStartAllowed(mode, target, flags, policy) ==
  \/ target # "real_platform"
  \/ /\ mode = "competition"
     /\ ArmedAndConfirmed(flags)
     /\ "allow_instance_start" \in flags
     /\ "allow_instance_start" \in policy

BrowserLoginAllowed(mode, flags, policy) ==
  \/ mode # "competition" /\ "allow_auth_capture" \in flags
  \/ /\ mode = "competition" /\ Confirmed(flags)
     /\ \/ {"allow_browser_login", "allow_auth_capture"} \cap policy # {}
        \/ "allow_auth_capture" \in flags

PublicTunnelAllowed(mode, flags, policy) ==
  /\ mode = "competition" /\ Confirmed(flags)
  /\ {"allow_public_tunnel", "allow_tunnel"} \cap policy # {}

ActionAllowed(mode, action, target, flags, policy) ==
  \/ action \in LocalTestActions
  \/ target # "real_platform" /\ action \in TargetActions
  \/ action \in ReadOnlyActions
  \/ action \in TransferActions /\ (mode # "setup" \/ "allow_real_readonly" \in flags)
  \/ action = "real_challenge_solve" /\ SolveAllowed(mode, flags)
  \/ action = "live_submit" /\ LiveSubmitAllowed(mode, flags, policy)
  \/ action = "instance_start" /\ InstanceStartAllowed(mode, target, flags, policy)
  \/ action = "browser_login" /\ BrowserLoginAllowed(mode, flags, policy)
  \/ action = "public_tunnel" /\ PublicTunnelAllowed(mode, flags, policy)
===========================================================================
