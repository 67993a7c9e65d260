CONSTANTS
    Threads = {t1, t2}
    Argvs <- McArgvs
    Envs <- McEnvs
    Core <- McCore
    LinkerPath <- McLinkerPath
    LinkerReal <- McLinkerReal
    LoaderPath <- McLoaderPath
    Programs <- McPrograms
    PathMax = 5
    CmdSize = 40
SPECIFICATION Spec
CHECK_DEADLOCK FALSE
PROPERTIES RunsItselfThreaded
