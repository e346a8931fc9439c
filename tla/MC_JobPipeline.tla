---------------------------- MODULE MC_JobPipeline ----------------------------
EXTENDS JobPipeline

\* A V1 pool beside an SV2 pool with either type of channel.
V1AndV2 == {<<"v1", "std">>, <<"v1", "ext">>}

\* Two SV2 pools with different types of channel.
StandardAndExtended == {<<"std", "ext">>}
=============================================================================
