---------------------------- MODULE MCHubService ----------------------------
(* Instances of HubService for TLC: one workload per family of tools. *)
EXTENDS HubService
CONSTANTS h1, h2, a1, s1, n1

ControlLoad ==
  [who |-> {h1, a1, s1},
   tools |-> {<<"control_handoff_to_ai", "AiAutonomous">>, <<"control_handoff_to_ai", "bogus">>,
              <<"control_takeover_manual", None>>, <<"control_pause_automation", None>>,
              <<"target_pause", None>>}, calls |-> 3]
SessionLoad ==
  [who |-> {h1, h2},
   tools |-> {<<"session_set_agent_port", 2>>, <<"set_target", None>>, <<"hook_set", 1>>,
              <<"hook_monitor", None>>, <<"session_status", None>>}, calls |-> 2]
BreakpointLoad ==
  [who |-> {h1, s1},
   tools |-> {<<"breakpoint_set", 1>>, <<"breakpoint_set", 2>>, <<"breakpoint_remove", 1>>,
              <<"breakpoint_inventory", None>>, <<"exception_inventory", None>>}, calls |-> 2]
HookLoad ==
  [who |-> {h1, h2},
   tools |-> {<<"hook_set", 1>>, <<"hook_function_set", 2>>, <<"hook_signature_set", 2>>,
              <<"hook_signature_remove", 2>>, <<"hook_remove", 1>>, <<"hook_clear", None>>,
              <<"hook_range_set", {1, 2}>>, <<"hook_inventory", None>>}, calls |-> 2]
ModuleLoad ==
  [who |-> {h1, a1},
   tools |-> {<<"control_handoff_to_ai", "AiAutonomous">>, <<"hook_module", None>>,
              <<"hook_targets_query", "ok">>, <<"hook_targets_query", "bad_page">>,
              <<"hook_monitor_apply", [id |-> 1, confirmed |-> TRUE]>>}, calls |-> 3]
TraceLoad(who) ==
  [who |-> who,
   tools |-> {<<"trace_scope_query", None>>, <<"trace_record_start", 1>>,
              <<"trace_record_stop", None>>, <<"trace_record_status", None>>,
              <<"trace_index_query", None>>, <<"syscall_config_set", "selected">>}, calls |-> 4]
Named(kind) == [name |-> n1, kind |-> kind]
ScriptLoad ==
  [who |-> {h1, h2},
   tools |-> {<<"script_inject", Named(None)>>, <<"script_inject", Named("callback")>>,
              <<"script_replace", Named(None)>>, <<"script_start", Named(None)>>,
              <<"script_stop", Named(None)>>, <<"script_remove", Named(None)>>}, calls |-> 3]
BindLoad ==
  [who |-> {h1},
   tools |-> {<<"script_inject", Named(None)>>, <<"binds", 1>>, <<"hook_remove", 1>>,
              <<"breakpoint_set", 1>>, <<"breakpoint_remove", 1>>}, calls |-> 3]

MCWorkloads == {ControlLoad, SessionLoad, BreakpointLoad, HookLoad, ModuleLoad,
                TraceLoad({h1}), ScriptLoad, BindLoad}
=============================================================================
