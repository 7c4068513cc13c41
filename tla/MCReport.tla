------------------------------ MODULE MCReport ------------------------------
(* Instances of the report and of the sweeps for TLC. *)
EXTENDS ReportFigures

E(type, session, device) ==
    [type |-> type, session |-> session, ip_hash |-> session, locale |-> 1,
     project_slug |-> IF type = "project_view" THEN 1 ELSE 0,
     path |-> IF type = "page_view" THEN 1 ELSE 0,
     device_class |-> device, referrer_host |-> device]

MCContent ==
    [analytics_events |-> {E("page_view", 1, 1), E("project_view", 1, 2)},
     login_attempts |-> {0}, admin_sessions |-> {0}]
ReportRows == [analytics_events |-> 2, login_attempts |-> 0, admin_sessions |-> 0]
SweepRows == [analytics_events |-> 1, login_attempts |-> 1, admin_sessions |-> 1]
=============================================================================
