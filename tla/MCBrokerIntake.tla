---------------------------- MODULE MCBrokerIntake ----------------------------
EXTENDS BrokerIntake

\* The two jobs are of two workflow runs, or of one.
MCWorlds == { [runOf |-> <<1, 2>>, undated |-> {}], [runOf |-> <<1, 1>>, undated |-> {2}] }
MCRepoOf    == <<1, 1>>
MCLabelsOf  == << {"gpu", "default"}, {"default"} >>
MCQueueLabels == <<"gpu", "default">>

\* An App that provisions runners and discovers its repositories, and the gh
\* command with repositories listed and no runners.
MCDeployments == { [app |-> TRUE, runner |-> TRUE, static |-> FALSE],
                   [app |-> FALSE, runner |-> FALSE, static |-> TRUE] }
=============================================================================
