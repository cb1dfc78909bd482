------------------------------ MODULE MC_Config ------------------------------
EXTENDS Config

MCDefaults == [content_dir |-> "content", output_dir |-> "public"]
MCTexts == {<< <<"siteDir", "a">>, <<"outputDir", "b">> >>,
            << <<"outputDir", "b">>, <<"other", "a">>, <<"siteDir", "a">>,
               <<"contentDir", "b">> >>}
MCObjects == {[output_dir |-> "a"], [f \in Field |-> "b"]}
=============================================================================
