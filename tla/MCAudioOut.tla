----------------------------- MODULE MCAudioOut -----------------------------
(* Two output devices in two orders, the radio's codec under two host APIs *)
(* or under one; one PipeWire sink.                                        *)
EXTENDS AudioOut

Entry(name, api) == [name |-> name, api |-> api]
MCLists == {<<Entry("speakers", "mme"), Entry("codec", "mme"), Entry("codec", "wasapi")>>,
            <<Entry("codec", "mme"), Entry("speakers", "mme")>>}
MCWishes == {Entry("codec", "wasapi"), Entry("sink", "")}
=============================================================================
