---- MODULE MCConfigStore ----
EXTENDS ConfigStore

MCAdapters == << [id |-> "a1", legacy |-> "l1", model |-> "m", priority |-> 1],
                 [id |-> "a2", legacy |-> "l1", model |-> "m", priority |-> 0] >>
MCBuiltin == {<<"opus">>}
MCCustom  == {<<"opus", "mini">>}
MCUsages  == {<<"opus">>, <<"bedrock", "opus", "2025", "v1">>, <<"opus", "mini">>, <<"opus", "mini", "2025">>}
====
